---- MODULE Spec2Model ----
(***************************************************************************)
(* Verification model of the virtual hardware board emulator: the address  *)
(* space dispatcher (flash, RAM, MMIO, bit-band), the STM32 and TM4C GPIO  *)
(* register models, board reset, and the debug session run loop.           *)
(*                                                                         *)
(* Representation of Python integers.  A data value (a register or memory  *)
(* word, a byte, a mask) is a non-negative Python int of unbounded width;  *)
(* it is represented by the set of positions of its 1 bits, so `a & b` is  *)
(* intersection, `a | b` is union, `a & ~b` is set difference, and masking *)
(* to w bits is intersection with 0..w-1.  Addresses, sizes and offsets    *)
(* take part in arithmetic and are integers.                               *)
(***************************************************************************)
EXTENDS Integers, Sequences, FiniteSets, TLC

(***************************************************************************)
(* Bit-level helpers                                                       *)
(***************************************************************************)

\* 2^n
RECURSIVE Pow2(_)
Pow2(n) == IF n = 0 THEN 1 ELSE 2 * Pow2(n - 1)

\* the bit set of a non-negative integer below 2^31
Bits(n) == {i \in 0..30 : (n \div Pow2(i)) % 2 = 1}

\* mask = (1 << (size * 8)) - 1 ; value & mask
MaskTo(value, size) == {b \in value : b < 8 * size}

\* val >> k
ShiftRight(value, k) == {b - k : b \in {c \in value : c >= k}}

\* variant: the bytes laid out most significant first
to_bytes_big(value, size) ==
    [k \in 0..(size - 1) |->
        {b - 8 * (size - 1 - k) : b \in {c \in value : c \div 8 = size - 1 - k}}]

\* (value & mask).to_bytes(size, "little"): byte k holds bits 8k..8k+7
to_bytes(value, size) ==
    [k \in 0..(size - 1) |-> {b - 8 * k : b \in {c \in value : c \div 8 = k}}]

\* int.from_bytes(data[offset:offset+size], "little")
from_bytes(data, offset, size) ==
    UNION {{b + 8 * k : b \in data[offset + k]} : k \in 0..(size - 1)}

(***************************************************************************)
(* Memory layout (the address ranges of the four regions)                  *)
(***************************************************************************)

FlashBase == 134217728           \* 0x08000000
SramBase == 536870912            \* 0x20000000
PeriphBase == 1073741824         \* 0x40000000
BitbandSramBase == 570425344     \* 0x22000000
BitbandPeriphBase == 1107296256  \* 0x42000000

\* region sizes, scaled down: words of flash and RAM, bytes of MMIO window,
\* 32-byte alias blocks (one block per target word) of each bit-band window
FlashWords == 3
SramWords == 2
PeriphSize == 6
BitbandBlocks == 3

FlashSize == 4 * FlashWords
SramSize == 4 * SramWords
BitbandSize == 32 * BitbandBlocks

\* AddressRange.contains
contains(base, size, address) == base <= address /\ address < base + size

\* AddressRange.contains_range
contains_range(base, size, address, n) ==
    contains(base, size, address) /\ address + n <= base + size

\* the two BitBandRegion objects built by create_address_space_from_config
bitband_regions ==
    << [base |-> BitbandSramBase, size |-> BitbandSize,
        target_base |-> SramBase, target_size |-> SramSize,
        target_is_peripheral |-> FALSE],
       [base |-> BitbandPeriphBase, size |-> BitbandSize,
        target_base |-> PeriphBase, target_size |-> PeriphSize,
        target_is_peripheral |-> TRUE] >>

VARIABLES
    flash_data,        \* FlashMemory._data : offset -> byte
    sram_data,         \* RamMemory._data   : offset -> byte
    periph_bases,      \* AddressSpace._periph_bases : sorted sequence of bases
    peripherals,       \* AddressSpace._peripherals  : base -> [size, word : offset -> value]
    odr,               \* STM32 GPIO: ODR.value
    external_inputs,   \* STM32 GPIO: IDR._external_inputs (<< >> for None, else <<value>>)
    tm4c_data,         \* TM4C GPIO: DATA.value
    cycle_count,       \* Clock._cycle_count
    pending,           \* InterruptController._pending
    regs,              \* the engine's CPU registers
    halt_requested,    \* DebugSession._halt_requested
    lock,              \* owner of the board mutex (0 when free)
    breakpoints,       \* the CPU's breakpoint set
    watch_hit,         \* the CPU's recorded watch hit ("None" or a hit)
    executed,          \* number of instructions the engine has executed
    at,                \* per connection: where its handler thread stands
    steps,             \* per connection: local `steps` of run
    max_steps,         \* per connection: argument of run (<< >> for None, else <<n>>)
    stop,              \* the StopReason last returned, with the command and connection
    call,              \* the last call made on the board: <<name, args...>>
    exc,               \* the exception that call raised, or "None"
    lines,             \* per connection: the request lines its handler has read
    responses,         \* per connection: the response lines its handler has written
    open,              \* per connection: the handler is still serving the socket
    subscribers,       \* Clock._subscribers: what each one has been given so far
    ticks,             \* the cycles argument of every Clock.tick call so far
    registers,         \* RegisterFile._registers: offset -> << >> or <<[kind, value, reset_value]>>
    cpu_pending,       \* CortexM._pending_interrupts
    irq_clock,         \* InterruptController._clock is not None
    cpu_attached,      \* InterruptController._cpu is not None
    engine_flash,      \* the engine's memory mapped over flash
    engine_sram,       \* the engine's memory mapped over RAM
    pc_read            \* per connection: local `pc` of step and run

memVars == <<flash_data, sram_data, periph_bases, peripherals>>
gpioVars == <<odr, external_inputs, tm4c_data>>
boardVars == <<cycle_count, pending, regs>>
dbgVars == <<halt_requested, lock, breakpoints, watch_hit, executed,
             at, steps, max_steps, stop>>
protoVars == <<lines, responses, open>>
subVars == <<subscribers, ticks>>
irqVars == <<cpu_pending, irq_clock, cpu_attached>>
moreVars == <<registers, irqVars, engine_sram, pc_read>>
envVars == <<protoVars, subVars, moreVars, engine_flash>>
\* what a reset of the board leaves alone
resetRest == <<protoVars, subVars, moreVars>>
vars == <<memVars, gpioVars, boardVars, dbgVars, call, exc, envVars>>

(***************************************************************************)
(* Memory regions (core/address_space.py)                                  *)
(***************************************************************************)

\* bytearray(size): all bytes zero
ZeroBytes(size) == [k \in 0..(size - 1) |-> {}]

\* FlashMemory.read: [exc, value]
FlashMemory_read(data, address, size) ==
    IF ~contains_range(FlashBase, FlashSize, address, size)
    THEN [exc |-> "MemoryBoundsError", value |-> {}]
    ELSE [exc |-> "None", value |-> from_bytes(data, address - FlashBase, size)]

\* variant: flash takes a write the way RAM does
FlashMemory_write_stores(data, address, size, value) ==
    IF ~contains_range(FlashBase, FlashSize, address, size)
    THEN [exc |-> "MemoryBoundsError", data |-> data]
    ELSE LET offset == address - FlashBase
             bytes == to_bytes(MaskTo(value, size), size)
         IN [exc |-> "None",
             data |-> [k \in 0..(FlashSize - 1) |->
                          IF offset <= k /\ k < offset + size
                          THEN bytes[k - offset] ELSE data[k]]]

\* FlashMemory.write: always raises, the data is not touched
FlashMemory_write(data, address, size, value) ==
    [exc |-> "MemoryAccessError", data |-> data]

\* FlashMemory.load_image: [exc, data]
FlashMemory_load_image(data, image) ==
    IF Len(image) > FlashSize
    THEN [exc |-> "ValueError", data |-> data]
    ELSE [exc |-> "None",
          data |-> [k \in 0..(FlashSize - 1) |->
                       IF k < Len(image) THEN image[k + 1] ELSE data[k]]]

\* RamMemory.read: [exc, value]
RamMemory_read(data, address, size) ==
    IF ~contains_range(SramBase, SramSize, address, size)
    THEN [exc |-> "MemoryBoundsError", value |-> {}]
    ELSE [exc |-> "None", value |-> from_bytes(data, address - SramBase, size)]

\* RamMemory.write: [exc, data]
RamMemory_write(data, address, size, value) ==
    IF ~contains_range(SramBase, SramSize, address, size)
    THEN [exc |-> "MemoryBoundsError", data |-> data]
    ELSE LET offset == address - SramBase
             bytes == to_bytes(MaskTo(value, size), size)
         IN [exc |-> "None",
             data |-> [k \in 0..(SramSize - 1) |->
                          IF offset <= k /\ k < offset + size
                          THEN bytes[k - offset] ELSE data[k]]]

\* RamMemory.reset
RamMemory_reset(data) == ZeroBytes(SramSize)

\* variant: the alias offset is divided as the bit-band of the architecture
\* does, 32 alias bytes to one target byte
translate_bytewise(bb, alias_address) ==
    IF ~contains(bb.base, bb.size, alias_address)
    THEN [exc |-> "MemoryBoundsError", target |-> 0, bit |-> 0]
    ELSE LET alias_offset == alias_address - bb.base
             byte_offset == alias_offset \div 32
             bit_index == (alias_offset % 32) \div 4
             target_address == bb.target_base + byte_offset
         IN IF ~contains(bb.target_base, bb.target_size, target_address)
            THEN [exc |-> "MemoryBoundsError", target |-> 0, bit |-> 0]
            ELSE [exc |-> "None", target |-> target_address, bit |-> bit_index]

\* BitBandRegion.translate: [exc, target, bit]
translate(bb, alias_address) ==
    IF ~contains(bb.base, bb.size, alias_address)
    THEN [exc |-> "MemoryBoundsError", target |-> 0, bit |-> 0]
    ELSE LET alias_offset == alias_address - bb.base
             byte_offset == (alias_offset \div 32) * 4
             bit_index == (alias_offset % 32) \div 4
             target_address == bb.target_base + byte_offset
         IN IF ~contains(bb.target_base, bb.target_size, target_address)
            THEN [exc |-> "MemoryBoundsError", target |-> 0, bit |-> 0]
            ELSE [exc |-> "None", target |-> target_address, bit |-> bit_index]

(***************************************************************************)
(* Address space dispatcher (core/memmap.py)                               *)
(***************************************************************************)

\* bisect.bisect_left(a, x): the binary search of the standard library
RECURSIVE bisect_left_loop(_, _, _, _)
bisect_left_loop(a, x, lo, hi) ==
    IF lo < hi
    THEN LET mid == (lo + hi) \div 2
         IN IF a[mid + 1] < x
            THEN bisect_left_loop(a, x, mid + 1, hi)
            ELSE bisect_left_loop(a, x, lo, mid)
    ELSE lo

bisect_left(a, x) == bisect_left_loop(a, x, 0, Len(a))

\* bisect.bisect_right(a, x)
RECURSIVE bisect_right_loop(_, _, _, _)
bisect_right_loop(a, x, lo, hi) ==
    IF lo < hi
    THEN LET mid == (lo + hi) \div 2
         IN IF x < a[mid + 1]
            THEN bisect_right_loop(a, x, lo, mid)
            ELSE bisect_right_loop(a, x, mid + 1, hi)
    ELSE lo

bisect_right(a, x) == bisect_right_loop(a, x, 0, Len(a))

\* the peripheral object handed to register_peripheral, with the size of its
\* mapping: a bank of words, one per offset, all 0 when it is constructed
Peripheral(size) == [size |-> size, word |-> [o \in 0..(size - 1) |-> {}]]

\* list.insert(idx, x), idx counted from 0
list_insert(a, idx, x) ==
    [k \in 1..(Len(a) + 1) |->
        IF k <= idx THEN a[k] ELSE IF k = idx + 1 THEN x ELSE a[k - 1]]

\* variant: the overlap test against the next mapping is left out
register_peripheral_no_next(bases, periphs, base, size) ==
    LET rejected(e) == [exc |-> e, bases |-> bases, periphs |-> periphs]
        idx == bisect_left(bases, base)
    IN IF size <= 0 THEN rejected("ValueError")
       ELSE IF ~contains_range(PeriphBase, PeriphSize, base, size)
       THEN rejected("MemoryBoundsError")
       ELSE IF idx > 0 /\ base < bases[idx] + periphs[bases[idx]].size
       THEN rejected("ValueError")
       ELSE [exc |-> "None",
             bases |-> list_insert(bases, idx, base),
             periphs |-> [b \in DOMAIN periphs \cup {base} |->
                            IF b = base THEN Peripheral(size)
                            ELSE periphs[b]]]

\* variant: the overlap test against the previous mapping is left out
register_peripheral_no_prev(bases, periphs, base, size) ==
    LET rejected(e) == [exc |-> e, bases |-> bases, periphs |-> periphs]
        idx == bisect_left(bases, base)
    IN IF size <= 0 THEN rejected("ValueError")
       ELSE IF ~contains_range(PeriphBase, PeriphSize, base, size)
       THEN rejected("MemoryBoundsError")
       ELSE IF idx < Len(bases) /\ base + size > bases[idx + 1]
       THEN rejected("ValueError")
       ELSE [exc |-> "None",
             bases |-> list_insert(bases, idx, base),
             periphs |-> [b \in DOMAIN periphs \cup {base} |->
                            IF b = base THEN Peripheral(size)
                            ELSE periphs[b]]]

\* AddressSpace.register_peripheral: [exc, bases, periphs]
register_peripheral(bases, periphs, base, size) ==
    LET rejected(e) == [exc |-> e, bases |-> bases, periphs |-> periphs]
        idx == bisect_left(bases, base)
    IN IF size <= 0 THEN rejected("ValueError")
       ELSE IF ~contains_range(PeriphBase, PeriphSize, base, size)
       THEN rejected("MemoryBoundsError")
       ELSE IF idx > 0 /\ base < bases[idx] + periphs[bases[idx]].size
       THEN rejected("ValueError")
       ELSE IF idx < Len(bases) /\ base + size > bases[idx + 1]
       THEN rejected("ValueError")
       ELSE [exc |-> "None",
             bases |-> list_insert(bases, idx, base),
             periphs |-> [b \in DOMAIN periphs \cup {base} |->
                            IF b = base THEN Peripheral(size)
                            ELSE periphs[b]]]

\* variant: the search stops left of an equal base
find_peripheral_bisect_left(bases, periphs, address) ==
    IF Len(bases) = 0 THEN -1
    ELSE LET idx == bisect_left(bases, address) - 1
         IN IF idx >= 0 /\ contains(bases[idx + 1], periphs[bases[idx + 1]].size, address)
            THEN bases[idx + 1]
            ELSE -1

\* AddressSpace.find_peripheral: the base of the mapping found, or -1 for None
find_peripheral(bases, periphs, address) ==
    IF Len(bases) = 0 THEN -1
    ELSE LET idx == bisect_right(bases, address) - 1
         IN IF idx >= 0 /\ contains(bases[idx + 1], periphs[bases[idx + 1]].size, address)
            THEN bases[idx + 1]
            ELSE -1

\* variant: only the size of the access is looked at
validate_access_size_only(address, size) ==
    IF size \notin {1, 2, 4} THEN "MemoryAccessError" ELSE "None"

\* AddressSpace._validate_access: the exception raised, or "None"
validate_access(address, size) ==
    IF size \notin {1, 2, 4} THEN "MemoryAccessError"
    ELSE IF size > 1 /\ address % size # 0 THEN "MemoryAlignmentError"
    ELSE "None"

\* the first bit-band region containing the address (0 when there is none)
bitband_of(address) ==
    IF contains(bitband_regions[1].base, bitband_regions[1].size, address) THEN 1
    ELSE IF contains(bitband_regions[2].base, bitband_regions[2].size, address) THEN 2
    ELSE 0

\* peripheral.read(offset, size) of the peripheral mapped at `base`: the word
\* it keeps at that offset
Peripheral_read(periphs, base, offset, size) == periphs[base].word[offset]

\* peripheral.write(offset, size, value): the word at that offset is replaced
Peripheral_write(periphs, base, offset, size, value) ==
    [periphs EXCEPT ![base].word[offset] = value]

\* peripheral.reset(): every word back to 0
Peripheral_reset(periph) == [periph EXCEPT !.word = [o \in DOMAIN periph.word |-> {}]]

\* AddressSpace._bitband_read: [exc, value]
bitband_read(sram, bases, periphs, bb, address) ==
    LET t == translate(bb, address)
        mapping == find_peripheral(bases, periphs, t.target)
        word == IF bb.target_is_peripheral
                THEN IF mapping = -1 THEN [exc |-> "MemoryAccessError", value |-> {}]
                     ELSE [exc |-> "None",
                           value |-> Peripheral_read(periphs, mapping, t.target - mapping, 4)]
                ELSE RamMemory_read(sram, t.target, 4)
    IN IF t.exc # "None" THEN [exc |-> t.exc, value |-> {}]
       ELSE IF word.exc # "None" THEN word
       ELSE [exc |-> "None", value |-> IF t.bit \in word.value THEN {0} ELSE {}]

\* variant: the bit is set by any value other than 0
bitband_write_nonzero(sram, bases, periphs, bb, address, value) ==
    LET failed(e) == [exc |-> e, sram |-> sram, periphs |-> periphs]
        t == translate(bb, address)
        mapping == find_peripheral(bases, periphs, t.target)
        word == IF bb.target_is_peripheral
                THEN IF mapping = -1 THEN [exc |-> "MemoryAccessError", value |-> {}]
                     ELSE [exc |-> "None",
                           value |-> Peripheral_read(periphs, mapping, t.target - mapping, 4)]
                ELSE RamMemory_read(sram, t.target, 4)
        modified == IF value # {} THEN word.value \cup {t.bit}
                    ELSE word.value \ {t.bit}
        written == RamMemory_write(sram, t.target, 4, modified)
    IN IF t.exc # "None" THEN failed(t.exc)
       ELSE IF word.exc # "None" THEN failed(word.exc)
       ELSE IF bb.target_is_peripheral
       THEN [exc |-> "None", sram |-> sram,
             periphs |-> Peripheral_write(periphs, mapping, t.target - mapping, 4, modified)]
       ELSE [exc |-> written.exc, sram |-> written.data, periphs |-> periphs]

\* variant: the bit is set whatever the written value
bitband_write_set_only(sram, bases, periphs, bb, address, value) ==
    LET failed(e) == [exc |-> e, sram |-> sram, periphs |-> periphs]
        t == translate(bb, address)
        mapping == find_peripheral(bases, periphs, t.target)
        word == IF bb.target_is_peripheral
                THEN IF mapping = -1 THEN [exc |-> "MemoryAccessError", value |-> {}]
                     ELSE [exc |-> "None",
                           value |-> Peripheral_read(periphs, mapping, t.target - mapping, 4)]
                ELSE RamMemory_read(sram, t.target, 4)
        modified == word.value \cup {t.bit}
        written == RamMemory_write(sram, t.target, 4, modified)
    IN IF t.exc # "None" THEN failed(t.exc)
       ELSE IF word.exc # "None" THEN failed(word.exc)
       ELSE IF bb.target_is_peripheral
       THEN [exc |-> "None", sram |-> sram,
             periphs |-> Peripheral_write(periphs, mapping, t.target - mapping, 4, modified)]
       ELSE [exc |-> written.exc, sram |-> written.data, periphs |-> periphs]

\* AddressSpace._bitband_write: [exc, sram, periphs]
bitband_write(sram, bases, periphs, bb, address, value) ==
    LET failed(e) == [exc |-> e, sram |-> sram, periphs |-> periphs]
        t == translate(bb, address)
        mapping == find_peripheral(bases, periphs, t.target)
        word == IF bb.target_is_peripheral
                THEN IF mapping = -1 THEN [exc |-> "MemoryAccessError", value |-> {}]
                     ELSE [exc |-> "None",
                           value |-> Peripheral_read(periphs, mapping, t.target - mapping, 4)]
                ELSE RamMemory_read(sram, t.target, 4)
        modified == IF 0 \in value THEN word.value \cup {t.bit}
                    ELSE word.value \ {t.bit}
        written == RamMemory_write(sram, t.target, 4, modified)
    IN IF t.exc # "None" THEN failed(t.exc)
       ELSE IF word.exc # "None" THEN failed(word.exc)
       ELSE IF bb.target_is_peripheral
       THEN [exc |-> "None", sram |-> sram,
             periphs |-> Peripheral_write(periphs, mapping, t.target - mapping, 4, modified)]
       ELSE [exc |-> written.exc, sram |-> written.data, periphs |-> periphs]

\* AddressSpace.read: [exc, value]
AddressSpace_read(flash, sram, bases, periphs, address, size) ==
    LET v == validate_access(address, size)
        bb == bitband_of(address)
        mapping == find_peripheral(bases, periphs, address)
    IN IF v # "None" THEN [exc |-> v, value |-> {}]
       ELSE IF bb # 0
       THEN IF size # 4 THEN [exc |-> "MemoryAccessError", value |-> {}]
            ELSE bitband_read(sram, bases, periphs, bitband_regions[bb], address)
       ELSE IF contains(FlashBase, FlashSize, address)
       THEN FlashMemory_read(flash, address, size)
       ELSE IF contains(SramBase, SramSize, address)
       THEN RamMemory_read(sram, address, size)
       ELSE IF contains(PeriphBase, PeriphSize, address)
       THEN IF mapping # -1
            THEN [exc |-> "None",
                  value |-> Peripheral_read(periphs, mapping, address - mapping, size)]
            ELSE [exc |-> "MemoryAccessError", value |-> {}]
       ELSE [exc |-> "MemoryAccessError", value |-> {}]

\* AddressSpace.write: [exc, flash, sram, periphs]
AddressSpace_write(flash, sram, bases, periphs, address, size, value) ==
    LET failed(e) == [exc |-> e, flash |-> flash, sram |-> sram, periphs |-> periphs]
        v == validate_access(address, size)
        bb == bitband_of(address)
        mapping == find_peripheral(bases, periphs, address)
        bbw == bitband_write(sram, bases, periphs, bitband_regions[bb], address, value)
        fw == FlashMemory_write(flash, address, size, value)
        rw == RamMemory_write(sram, address, size, value)
    IN IF v # "None" THEN failed(v)
       ELSE IF bb # 0
       THEN IF size # 4 THEN failed("MemoryAccessError")
            ELSE [exc |-> bbw.exc, flash |-> flash, sram |-> bbw.sram,
                  periphs |-> bbw.periphs]
       ELSE IF contains(FlashBase, FlashSize, address)
       THEN [exc |-> fw.exc, flash |-> fw.data, sram |-> sram, periphs |-> periphs]
       ELSE IF contains(SramBase, SramSize, address)
       THEN [exc |-> rw.exc, flash |-> flash, sram |-> rw.data, periphs |-> periphs]
       ELSE IF contains(PeriphBase, PeriphSize, address)
       THEN IF mapping # -1
            THEN [exc |-> "None", flash |-> flash, sram |-> sram,
                  periphs |-> Peripheral_write(periphs, mapping, address - mapping,
                                               size, value)]
            ELSE failed("MemoryAccessError")
       ELSE failed("MemoryAccessError")

\* AddressSpace.reset: [sram, periphs]; RAM zeroed, every peripheral reset
AddressSpace_reset(sram, periphs) ==
    [sram |-> RamMemory_reset(sram),
     periphs |-> [b \in DOMAIN periphs |-> Peripheral_reset(periphs[b])]]

(***************************************************************************)
(* Initial state: the board as constructed (blank flash, zeroed RAM, no    *)
(* peripheral mapping, GPIO registers at their initial values).            *)
(***************************************************************************)

\* the offsets of a register file: registers are added at 0 and 4, never at 16
RegOffsets == {0, 4, 16}

Conns == {1, 2}

\* the two kinds of clock subscriber: one whose tick accepts a cycle count,
\* one whose tick takes no argument
SubscriberKinds == {"batched", "unit"}

\* the GUI thread of the server process (server.py _run_with_gui)
Gui == 3

\* the threads that reach the board: one per connection, and the GUI
Threads == Conns \cup {Gui}
RegNames == {"R0", "R12", "SP", "LR", "PC", "XPSR", "MSP"}

InitRest ==
    /\ flash_data = ZeroBytes(FlashSize)
    /\ sram_data = ZeroBytes(SramSize)
    /\ periph_bases = << >>
    /\ peripherals = << >>
    /\ odr = {}
    /\ external_inputs = << >>
    /\ tm4c_data = {}
    /\ cycle_count = 0
    /\ pending = << >>
    /\ regs = [r \in RegNames |-> {}]
    /\ halt_requested = FALSE
    /\ lock = 0
    /\ breakpoints = {}
    /\ watch_hit = "None"
    /\ executed = 0
    /\ at = [c \in Threads |-> "idle"]
    /\ steps = [c \in Conns |-> 0]
    /\ max_steps = [c \in Conns |-> << >>]
    /\ stop = [cmd |-> "None", conn |-> 0, reason |-> "None", address |-> {},
             detail |-> "None"]
    /\ call = <<"init">>
    /\ exc = "None"
    /\ lines = [c \in Conns |-> << >>]
    /\ responses = [c \in Conns |-> << >>]
    /\ open = [c \in Conns |-> TRUE]
    /\ subscribers = [s \in SubscriberKinds |-> [calls |-> 0, cycles |-> 0]]
    /\ ticks = << >>
    /\ registers = [o \in RegOffsets |-> << >>]
    /\ cpu_pending = << >>
    /\ engine_flash = ZeroBytes(FlashSize)
    /\ engine_sram = ZeroBytes(SramSize)
    /\ pc_read = [c \in Conns |-> {}]

\* a board: its controller is built over the clock and the CPU is attached
Init == InitRest /\ irq_clock = TRUE /\ cpu_attached = TRUE

(***************************************************************************)
(* Operations on the address space                                         *)
(***************************************************************************)

\* address_space.register_peripheral(base, size, peripheral)
RegisterPeripheral(base, size) ==
    LET r == register_peripheral(periph_bases, peripherals, base, size)
    IN /\ periph_bases' = r.bases
       /\ peripherals' = r.periphs
       /\ call' = <<"register_peripheral", base, size>>
       /\ exc' = r.exc
       /\ UNCHANGED <<envVars, flash_data, sram_data, gpioVars, boardVars, dbgVars>>

\* address_space.write(address, size, value)
Write(address, size, value) ==
    LET r == AddressSpace_write(flash_data, sram_data, periph_bases, peripherals,
                                address, size, value)
    IN /\ flash_data' = r.flash
       /\ sram_data' = r.sram
       /\ peripherals' = r.periphs
       /\ call' = <<"write", address, size, value>>
       /\ exc' = r.exc
       /\ UNCHANGED <<envVars, periph_bases, gpioVars, boardVars, dbgVars>>

\* address_space.flash.load_image(data)
LoadImage(image) ==
    LET r == FlashMemory_load_image(flash_data, image)
    IN /\ flash_data' = r.data
       /\ call' = <<"load_image", image>>
       /\ exc' = r.exc
       /\ UNCHANGED <<envVars, sram_data, periph_bases, peripherals, gpioVars, boardVars, dbgVars>>

\* address_space.reset()
Reset ==
    LET r == AddressSpace_reset(sram_data, peripherals)
    IN /\ sram_data' = r.sram
       /\ peripherals' = r.periphs
       /\ call' = <<"reset">>
       /\ exc' = "None"
       /\ UNCHANGED <<envVars, flash_data, periph_bases, gpioVars, boardVars, dbgVars>>

\* the value the address space returns for read(address, size) in this state
Read(address, size) ==
    AddressSpace_read(flash_data, sram_data, periph_bases, peripherals, address, size)

(***************************************************************************)
(* SpecMap: registration of peripheral mappings in the MMIO window         *)
(***************************************************************************)

MapBases == (PeriphBase - 1)..(PeriphBase + PeriphSize)
MapSizes == {-1, 0, 1, 2, 3, PeriphSize}

NextMap == \E base \in MapBases, size \in MapSizes : RegisterPeripheral(base, size)

SpecMap == Init /\ [][NextMap]_vars

(***************************************************************************)
(* SpecMem: reads and writes of RAM and flash through the address space    *)
(***************************************************************************)

\* 0x81010101 plus two bits above the 32-bit width
ValA == {0, 8, 16, 24, 31, 32, 40}
Values == {ValA, {}}
Sizes == {1, 2, 4}

\* the addresses the model writes: the first and the last word of RAM
RamAddrs ==
    {SramBase + k : k \in 0..3} \cup {SramBase + SramSize - 4 + k : k \in 0..3}
FlashAddrs == FlashBase..(FlashBase + FlashSize - 1)

ImageWords(w0, w1) ==
    [k \in 1..8 |-> IF k <= 4 THEN to_bytes(w0, 4)[k - 1] ELSE to_bytes(w1, 4)[k - 5]]
ImageGood == ImageWords(Bits(SramBase + 4), Bits(FlashBase + 9))

Aligned(address, size) == address % size = 0

MemWrites ==
    {<<a, s, v>> \in RamAddrs \X Sizes \X Values : Aligned(a, s)}
    \cup {<<SramBase + 1, 2, ValA>>, <<SramBase + 2, 4, ValA>>,
          <<SramBase + SramSize, 1, ValA>>, <<SramBase - 4, 4, ValA>>}
    \cup {<<FlashBase, 4, ValA>>, <<FlashBase + 1, 1, ValA>>,
          <<FlashBase + FlashSize - 2, 4, ValA>>}

NextMem ==
    \/ \E w \in MemWrites : Write(w[1], w[2], w[3])
    \/ Reset

SpecMem == Init /\ [][NextMem]_vars

(***************************************************************************)
(* SpecBitband: single-bit access to RAM through the SRAM alias window     *)
(***************************************************************************)

\* the alias address of bit slot i of the 32-byte alias block w
AliasAddr(w, i) == BitbandSramBase + 32 * w + 4 * i

\* alias blocks of the first and the last RAM word, and the first block past RAM
AliasBlocks == {0, SramWords - 1, SramWords}
AliasSlots == {0, 3, 7}

BitbandWrites ==
    {<<AliasAddr(w, i), 4, v>> : w \in AliasBlocks, i \in AliasSlots, v \in {{}, {0}}}
    \cup {<<a, 4, v>> : a \in {SramBase, SramBase + SramSize - 4}, v \in Values}

NextBitband ==
    \/ \E w \in BitbandWrites : Write(w[1], w[2], w[3])
    \/ Reset

SpecBitband == Init /\ [][NextBitband]_vars

(***************************************************************************)
(* Properties of the address space                                         *)
(***************************************************************************)

\* the installed mappings as half-open ranges
MappingEnd(b) == b + peripherals[b].size

\* C1: after any sequence of register_peripheral calls the installed
\* mappings are pairwise disjoint, each lies inside the MMIO window, and the
\* sorted base list holds exactly the bases of the mapping table, ascending.
C1_MappingsDisjointSorted ==
    /\ \A b1, b2 \in DOMAIN peripherals :
          b1 # b2 => (MappingEnd(b1) <= b2 \/ MappingEnd(b2) <= b1)
    /\ \A b \in DOMAIN peripherals :
          /\ peripherals[b].size > 0
          /\ PeriphBase <= b
          /\ MappingEnd(b) <= PeriphBase + PeriphSize
    /\ \A k \in 1..(Len(periph_bases) - 1) : periph_bases[k] < periph_bases[k + 1]
    /\ {periph_bases[k] : k \in 1..Len(periph_bases)} = DOMAIN peripherals

\* three mappings are installed and the last call, an overlapping one, was rejected
C1_Witness ==
    /\ Len(periph_bases) = 3
    /\ call[1] = "register_peripheral"
    /\ exc = "ValueError"
    /\ call[3] > 0

\* byte k of a value
ByteOf(value, k) == {b - 8 * k : b \in {c \in value : c \div 8 = k}}

\* C2: for every RAM address a and size s in {1,2,4} with a mod s = 0 and
\* every value v, write(a, s, v) succeeds, a following read(a, s) returns
\* v mod 2^(8s), the bytes are stored little-endian (a 1-byte read at a+k
\* returns byte k of v), and RAM bytes outside [a, a+s) are unchanged.
C2_RamRoundTrip ==
    [][(/\ call'[1] = "write"
        /\ contains(SramBase, SramSize, call'[2])
        /\ call'[3] \in Sizes
        /\ Aligned(call'[2], call'[3]))
       => LET a == call'[2]
              s == call'[3]
              v == call'[4]
          IN /\ exc' = "None"
             /\ AddressSpace_read(flash_data', sram_data', periph_bases',
                                  peripherals', a, s)
                  = [exc |-> "None", value |-> MaskTo(v, s)]
             /\ \A k \in 0..(s - 1) :
                   AddressSpace_read(flash_data', sram_data', periph_bases',
                                     peripherals', a + k, 1)
                     = [exc |-> "None", value |-> ByteOf(v, k)]
             /\ \A k \in 0..(SramSize - 1) :
                   (k < a - SramBase \/ k >= a - SramBase + s)
                     => sram_data'[k] = sram_data[k]
             /\ flash_data' = flash_data]_vars

\* a 4-byte write of ValA (wider than 32 bits) into the last RAM word succeeded
\* while the first word held other data
C2_Witness ==
    /\ call = <<"write", SramBase + SramSize - 4, 4, ValA>>
    /\ exc = "None"
    /\ sram_data[1] = {0}
    /\ sram_data[0] = {}

\* C3: a write through the address space to any flash address fails with a
\* memory permission error and leaves the flash contents unchanged.
C3_FlashWritePermissionError ==
    [][(call'[1] = "write" /\ contains(FlashBase, FlashSize, call'[2]))
       => (exc' = "MemoryPermissionError" /\ flash_data' = flash_data)]_vars

\* the 32-bit RAM word at a target address
RamWord(data, t) == from_bytes(data, t - SramBase, 4)

\* C4: for an SRAM alias address a that translates to (t, i) and v in {0,1},
\* after a 4-byte write of v at a: a 4-byte read of a returns v, bit i of the
\* word at t equals v, every other bit of that word and every other RAM byte
\* is unchanged.
C4_BitbandBitLocal ==
    [][(/\ call'[1] = "write"
        /\ call'[3] = 4
        /\ contains(BitbandSramBase, BitbandSize, call'[2])
        /\ call'[4] \in {{}, {0}}
        /\ translate(bitband_regions[1], call'[2]).exc = "None")
       => LET a == call'[2]
              v == call'[4]
              t == translate(bitband_regions[1], a).target
              i == translate(bitband_regions[1], a).bit
          IN /\ exc' = "None"
             /\ AddressSpace_read(flash_data', sram_data', periph_bases',
                                  peripherals', a, 4)
                  = [exc |-> "None", value |-> v]
             /\ (i \in RamWord(sram_data', t)) <=> (v = {0})
             /\ RamWord(sram_data', t) \ {i} = RamWord(sram_data, t) \ {i}
             /\ \A k \in 0..(SramSize - 1) :
                   (k < t - SramBase \/ k >= t - SramBase + 4)
                     => sram_data'[k] = sram_data[k]]_vars

\* bit 3 of the last RAM word was set through the alias, the rest of the word
\* (written as ValA before) stayed, and the first word holds only its bit 7
C4_Witness ==
    /\ call = <<"write", AliasAddr(SramWords - 1, 3), 4, {0}>>
    /\ exc = "None"
    /\ RamWord(sram_data, SramBase + SramSize - 4) = {0, 3, 8, 16, 24, 31}
    /\ RamWord(sram_data, SramBase) = {7}

(***************************************************************************)
(* Registers (core/register.py)                                            *)
(***************************************************************************)

\* RegisterFile._validate_size
validate_size(size) == IF size \in {1, 2, 4} THEN "None" ELSE "ValueError"

\* SimpleRegister.read: self.value & mask
SimpleRegister_read(value, access_size) == MaskTo(value, access_size)

\* variant: the written value replaces the whole register
SimpleRegister_write_whole(value, access_size, val) == MaskTo(val, access_size)

\* SimpleRegister.write: (self.value & ~mask) | (val & mask)
SimpleRegister_write(value, access_size, val) ==
    {b \in value : b >= 8 * access_size} \cup MaskTo(val, access_size)

(***************************************************************************)
(* STM32 GPIO port (stm32/gpio.py): ODR, IDR and BSRR                      *)
(***************************************************************************)

REG_IDR == 16
REG_ODR == 20
REG_BSRR == 24

\* value & GPIO_DATA_MASK_16BIT
Mask16(value) == {b \in value : b < 16}

\* variant: the reset half is applied before the set half
STM32BitSetResetRegister_write_set_last(odr_value, size, val) ==
    IF size # 4 THEN [exc |-> "ValueError", odr |-> odr_value]
    ELSE LET set_mask == Mask16(val)
             reset_mask == Mask16(ShiftRight(val, 16))
             current == (odr_value \ reset_mask) \cup set_mask
         IN [exc |-> "None",
             odr |-> SimpleRegister_write(odr_value, 4, Mask16(current))]

\* STM32BitSetResetRegister.write: [exc, odr]
STM32BitSetResetRegister_write(odr_value, size, val) ==
    IF size # 4 THEN [exc |-> "ValueError", odr |-> odr_value]
    ELSE LET set_mask == Mask16(val)
             reset_mask == Mask16(ShiftRight(val, 16))
             current == (SimpleRegister_read(odr_value, 4) \cup set_mask) \ reset_mask
         IN [exc |-> "None",
             odr |-> SimpleRegister_write(odr_value, 4, Mask16(current))]

\* variant: IDR always mirrors ODR
STM32InputDataRegister_read_mirror(odr_value, ext, size) ==
    SimpleRegister_read(odr_value, size)

\* STM32InputDataRegister.read
STM32InputDataRegister_read(odr_value, ext, size) ==
    IF ext # << >> THEN Mask16(ext[1]) ELSE SimpleRegister_read(odr_value, size)

\* STM32GPIO.read: [exc, value]
STM32GPIO_read(odr_value, ext, offset, size) ==
    IF validate_size(size) # "None" THEN [exc |-> "ValueError", value |-> {}]
    ELSE [exc |-> "None",
          value |-> CASE offset = REG_ODR -> SimpleRegister_read(odr_value, size)
                      [] offset = REG_IDR -> STM32InputDataRegister_read(odr_value, ext, size)
                      [] offset = REG_BSRR -> {}
                      [] OTHER -> {}]

\* variant: a write to a register other than BSRR keeps all 32 bits
STM32GPIO_write_unmasked(odr_value, offset, size, value) ==
    IF validate_size(size) # "None" THEN [exc |-> "ValueError", odr |-> odr_value]
    ELSE IF offset = REG_BSRR THEN STM32BitSetResetRegister_write(odr_value, size, value)
    ELSE IF offset = REG_ODR
    THEN [exc |-> "None", odr |-> SimpleRegister_write(odr_value, size, value)]
    ELSE [exc |-> "None", odr |-> odr_value]

\* STM32GPIO.write: [exc, odr]
STM32GPIO_write(odr_value, offset, size, value) ==
    IF validate_size(size) # "None" THEN [exc |-> "ValueError", odr |-> odr_value]
    ELSE IF offset = REG_BSRR THEN STM32BitSetResetRegister_write(odr_value, size, value)
    ELSE IF offset = REG_ODR
    THEN [exc |-> "None", odr |-> SimpleRegister_write(odr_value, size, Mask16(value))]
    ELSE [exc |-> "None", odr |-> odr_value]

\* STM32GPIO.set_pin: [exc, ext]
STM32GPIO_set_pin(odr_value, ext, pin, level) ==
    IF ~(0 <= pin /\ pin < 16) THEN [exc |-> "ValueError", ext |-> ext]
    ELSE LET current == IF ext # << >> THEN ext[1] ELSE SimpleRegister_read(odr_value, 4)
         IN [exc |-> "None",
             ext |-> <<Mask16(IF level = 1 THEN current \cup {pin} ELSE current \ {pin})>>]

\* STM32GPIO.reset: every register back to its reset value
STM32GPIO_reset(odr_value) == {}

(***************************************************************************)
(* TM4C GPIO port (tm4c/gpio.py): the DATA register and its masked window  *)
(***************************************************************************)

\* cfg.offsets.data
DataOffset == 0

\* TM4C123Board._pin_data_mask: the OR of the configured pin masks (0x7F)
DataMask == Bits(127)

\* data_mask.bit_length()
PinCount == 7

\* variant: the written value replaces every pin, the address mask is ignored
write_masked_unmasked(value, address, val) ==
    LET diff == address - DataOffset
    IN IF diff <= 0 \/ diff > 1020 THEN [exc |-> "ValueError", value |-> value]
       ELSE [exc |-> "None", value |-> val \cap DataMask]

\* TM4CMaskedDataRegister.write_masked: [exc, value]
write_masked(value, address, val) ==
    LET diff == address - DataOffset
        mask == Bits(diff \div 4) \cap DataMask
        current == value \cap DataMask
    IN IF diff <= 0 \/ diff > 1020 THEN [exc |-> "ValueError", value |-> value]
       ELSE [exc |-> "None", value |-> (current \ mask) \cup (val \cap mask)]

\* cfg.offsets.mis
MisOffset == 1048

\* RIS.value: a read-only register with reset value 0, which ICR only clears
RisValue == {}

\* variant: the DATA offset itself is read through the address mask, which is 0
read_masked_mask0(value, address) ==
    LET diff == address - DataOffset
    IN IF diff < 0 \/ diff > 1020 THEN {}
       ELSE value \cap (Bits(diff \div 4) \cap DataMask)

\* TM4CMaskedDataRegister.read_masked
read_masked(value, address) ==
    LET diff == address - DataOffset
    IN IF diff < 0 \/ diff > 1020 THEN {}
       ELSE IF diff = 0 THEN value \cap DataMask
       ELSE value \cap (Bits(diff \div 4) \cap DataMask)

\* TM4C123GPIO.read: [exc, value]; MIS is RIS & IM (IM as unwritten), and the
\* registers other than DATA read as unwritten
TM4C123GPIO_read(value, offset, size) ==
    LET diff == offset - DataOffset
    IN IF 0 <= diff /\ diff <= 1020
       THEN [exc |-> "None", value |-> read_masked(value, offset)]
       ELSE IF offset = MisOffset
       THEN [exc |-> "None", value |-> RisValue \cap {}]
       ELSE IF validate_size(size) # "None" THEN [exc |-> "ValueError", value |-> {}]
       ELSE [exc |-> "None", value |-> {}]

\* TM4C123GPIO.write: [exc, value]; writes to other registers leave DATA alone
TM4C123GPIO_write(value, offset, size, val) ==
    LET diff == offset - DataOffset
    IN IF 0 < diff /\ diff <= 1020
       THEN IF size # 4 THEN [exc |-> "ValueError", value |-> value]
            ELSE write_masked(value, offset, val)
       ELSE IF validate_size(size) # "None" THEN [exc |-> "ValueError", value |-> value]
       ELSE IF diff = 0
       THEN [exc |-> "None", value |-> SimpleRegister_write(value, size, val \cap DataMask)]
       ELSE [exc |-> "None", value |-> value]

\* TM4C123GPIO.set_pin: [exc, value]
TM4C123GPIO_set_pin(value, pin, level) ==
    IF ~(0 <= pin /\ pin < PinCount) THEN [exc |-> "ValueError", value |-> value]
    ELSE [exc |-> "None",
          value |-> IF level = 1 THEN value \cup {pin} ELSE value \ {pin}]

\* TM4C123GPIO.reset: DATA back to its reset value
TM4C123GPIO_reset(value) == {}

(***************************************************************************)
(* Operations on the GPIO ports                                            *)
(***************************************************************************)

\* STM32GPIO.write(offset, size, value)
Stm32Write(offset, size, value) ==
    LET r == STM32GPIO_write(odr, offset, size, value)
    IN /\ odr' = r.odr
       /\ call' = <<"stm32_write", offset, size, value>>
       /\ exc' = r.exc
       /\ UNCHANGED <<envVars, memVars, external_inputs, tm4c_data, boardVars, dbgVars>>

\* STM32GPIO.set_pin(pin, level)
Stm32SetPin(pin, level) ==
    LET r == STM32GPIO_set_pin(odr, external_inputs, pin, level)
    IN /\ external_inputs' = r.ext
       /\ call' = <<"stm32_set_pin", pin, level>>
       /\ exc' = r.exc
       /\ UNCHANGED <<envVars, memVars, odr, tm4c_data, boardVars, dbgVars>>

\* STM32GPIO.reset()
Stm32Reset ==
    /\ odr' = STM32GPIO_reset(odr)
    /\ call' = <<"stm32_reset">>
    /\ exc' = "None"
    /\ UNCHANGED <<envVars, memVars, external_inputs, tm4c_data, boardVars, dbgVars>>

\* TM4C123GPIO.write(offset, size, value)
Tm4cWrite(offset, size, value) ==
    LET r == TM4C123GPIO_write(tm4c_data, offset, size, value)
    IN /\ tm4c_data' = r.value
       /\ call' = <<"tm4c_write", offset, size, value>>
       /\ exc' = r.exc
       /\ UNCHANGED <<envVars, memVars, odr, external_inputs, boardVars, dbgVars>>

\* TM4C123GPIO.set_pin(pin, level)
Tm4cSetPin(pin, level) ==
    LET r == TM4C123GPIO_set_pin(tm4c_data, pin, level)
    IN /\ tm4c_data' = r.value
       /\ call' = <<"tm4c_set_pin", pin, level>>
       /\ exc' = r.exc
       /\ UNCHANGED <<envVars, memVars, odr, external_inputs, boardVars, dbgVars>>

\* TM4C123GPIO.reset()
Tm4cReset ==
    /\ tm4c_data' = TM4C123GPIO_reset(tm4c_data)
    /\ call' = <<"tm4c_reset">>
    /\ exc' = "None"
    /\ UNCHANGED <<envVars, memVars, odr, external_inputs, boardVars, dbgVars>>

(***************************************************************************)
(* SpecStm32: register traffic on one STM32 GPIO port                      *)
(***************************************************************************)

\* the pins the set and reset halves of a BSRR value are drawn from
BsrrPins == {0, 15}

\* (reset << 16) | set
BsrrValue(set, reset) == set \cup {b + 16 : b \in reset}

OdrValues == {{0, 7, 15, 16}, {}}

\* MODER, OTYPER, OSPEEDR, PUPDR, LCKR, AFRL, AFRH
Stm32ConfigOffsets == {0, 4, 8, 12, 28, 32, 36}

Stm32Writes ==
    {<<REG_BSRR, 4, BsrrValue(s, r)>> : s \in SUBSET BsrrPins, r \in SUBSET BsrrPins}
    \cup {<<REG_BSRR, 2, {0}>>, <<REG_BSRR, 1, {0}>>, <<REG_BSRR, 3, {16}>>}
    \cup {<<REG_ODR, n, v>> : n \in Sizes, v \in OdrValues}
    \cup {<<REG_IDR, 4, {0}>>, <<REG_ODR, 3, {0}>>}
    \cup {<<o, 4, {0, 5}>> : o \in Stm32ConfigOffsets}

NextStm32 ==
    \/ \E w \in Stm32Writes : Stm32Write(w[1], w[2], w[3])
    \/ \E pin \in {0, 16}, level \in {0, 1} : Stm32SetPin(pin, level)
    \/ Stm32Reset

SpecStm32 == Init /\ [][NextStm32]_vars

(***************************************************************************)
(* SpecTm4c: register traffic on one TM4C GPIO port                        *)
(***************************************************************************)

\* offsets in and around the DATA window: DATA itself, masks 0x01 (twice),
\* 0x41, 0x80 (no configured pin), 0xFF, and the first offset past the window
Tm4cOffsets == {0, 4, 6, 260, 512, 1020, 1024}

Tm4cValues == {{}, {0}, {6, 7, 8}, {0, 1, 6, 7, 8}}

Tm4cWrites ==
    {<<DataOffset + o, 4, v>> : o \in Tm4cOffsets, v \in Tm4cValues}
    \cup {<<DataOffset + 4, 2, {0}>>, <<DataOffset, 1, {0, 1}>>, <<DataOffset, 3, {0}>>,
          <<DataOffset, 2, {1, 8}>>}

NextTm4c ==
    \/ \E w \in Tm4cWrites : Tm4cWrite(w[1], w[2], w[3])
    \/ \E pin \in {1, 7}, level \in {0, 1} : Tm4cSetPin(pin, level)
    \/ Tm4cReset

SpecTm4c == Init /\ [][NextTm4c]_vars

(***************************************************************************)
(* Properties of the GPIO ports                                            *)
(***************************************************************************)

\* C6: for the STM32 GPIO, a 32-bit write of (reset<<16)|set to BSRR makes
\* new_ODR = (old_ODR | set) & ~reset in that single write, for every old
\* ODR and every pair of masks; a bit in both set and reset ends up cleared.
C6_BsrrSetThenReset ==
    [][(/\ call'[1] = "stm32_write"
        /\ call'[2] = REG_BSRR
        /\ call'[3] = 4)
       => LET set == {b \in call'[4] : b < 16}
              reset == {b - 16 : b \in {c \in call'[4] : 16 <= c /\ c < 32}}
          IN /\ exc' = "None"
             /\ odr' = (odr \cup set) \ reset
             /\ \A b \in set \cap reset : b \notin odr']_vars

\* a BSRR write with pin 0 in both halves cleared pin 0 and set pin 15 while
\* pin 7 (written through ODR before) stayed
C6_Witness ==
    /\ call = <<"stm32_write", REG_BSRR, 4, {0, 15, 16}>>
    /\ exc = "None"
    /\ odr = {7, 15}

MaxCycles == 2
MaxPending == 1

\* the number of events delivered to the CPU
MaxDelivered == 2
MaxExecuted == 2

\* _XPSR_THUMB_BIT = 0x01000000
XPSR_THUMB_BIT == {24}

RECURSIVE ToInt(_)
\* the integer a set of bits below 31 stands for
ToInt(bits) ==
    IF bits = {} THEN 0
    ELSE LET b == CHOOSE x \in bits : TRUE IN Pow2(b) + ToInt(bits \ {b})

\* AddressRange.contains for a 32-bit register value
contains_value(base, size, value) ==
    /\ \A b \in value : b < 31
    /\ contains(base, size, ToInt(value))

\* the instruction addresses the engine may be at: the reset vector's
\* instruction and the next one
CodeAddrs == {Bits(FlashBase + 8), Bits(FlashBase + 10)}

\* what one engine.step can do: raise, or retire an instruction and leave
\* the PC at a code address, with or without touching a watched range
EngineOutcomes == {[fault |-> TRUE, pc |-> {}, hit |-> FALSE]} \cup
                  {[fault |-> FALSE, pc |-> a, hit |-> h] : a \in CodeAddrs, h \in BOOLEAN}

\* CortexM.step: [exc, regs, executed, watch_hit]
CortexM_step(r, n, w, outcome) ==
    IF outcome.fault
    THEN [exc |-> "UcError", regs |-> r, executed |-> n, watch_hit |-> w]
    ELSE [exc |-> "None", regs |-> [r EXCEPT !["PC"] = outcome.pc],
          executed |-> n + 1, watch_hit |-> IF outcome.hit THEN "hit" ELSE w]

RECURSIVE CortexM_tick(_, _, _, _)
\* CortexM.tick: step once per cycle, the first exception ends the loop
CortexM_tick(r, n, w, outcomes) ==
    IF outcomes = << >>
    THEN [exc |-> "None", regs |-> r, executed |-> n, watch_hit |-> w]
    ELSE LET one == CortexM_step(r, n, w, Head(outcomes))
         IN IF one.exc # "None" THEN one
            ELSE CortexM_tick(one.regs, one.executed, one.watch_hit, Tail(outcomes))

\* variant: the boot values are written before they are validated
CortexM_reset_sets_before_check(flash, r) ==
    LET msp == FlashMemory_read(flash, FlashBase, 4).value
        reset_vector == FlashMemory_read(flash, FlashBase + 4, 4).value
        booted == [x \in RegNames |->
                     CASE x \in {"R0", "R12"} -> {}
                       [] x = "XPSR" -> XPSR_THUMB_BIT
                       [] x \in {"MSP", "SP"} -> MaskTo(msp, 4)
                       [] x = "PC" -> MaskTo(reset_vector, 4)
                       [] OTHER -> r[x]]
    IN IF ~contains_value(SramBase, SramSize, msp) \/ 0 \notin reset_vector
       THEN [exc |-> "RuntimeError", regs |-> booted]
       ELSE [exc |-> "None", regs |-> booted]

\* variant: the registers are not cleared, only the boot values are set
CortexM_reset_keeps_registers(flash, r) ==
    LET msp == FlashMemory_read(flash, FlashBase, 4).value
        reset_vector == FlashMemory_read(flash, FlashBase + 4, 4).value
    IN IF ~contains_value(SramBase, SramSize, msp)
       THEN [exc |-> "RuntimeError", regs |-> r]
       ELSE IF 0 \notin reset_vector
       THEN [exc |-> "RuntimeError", regs |-> r]
       ELSE [exc |-> "None",
             regs |-> [r EXCEPT !["MSP"] = MaskTo(msp, 4),
                                !["SP"] = MaskTo(msp, 4),
                                !["PC"] = MaskTo(reset_vector, 4)]]

\* CortexM.reset: [exc, regs]
CortexM_reset(flash, r) ==
    LET cleared == [x \in RegNames |->
                      CASE x \in {"R0", "R12"} -> {}
                        [] x = "XPSR" -> XPSR_THUMB_BIT
                        [] OTHER -> r[x]]
        msp == FlashMemory_read(flash, FlashBase, 4).value
        reset_vector == FlashMemory_read(flash, FlashBase + 4, 4).value
    IN IF ~contains_value(SramBase, SramSize, msp)
       THEN [exc |-> "RuntimeError", regs |-> cleared]
       ELSE IF 0 \notin reset_vector
       THEN [exc |-> "RuntimeError", regs |-> cleared]
       ELSE [exc |-> "None",
             regs |-> [cleared EXCEPT !["MSP"] = MaskTo(msp, 4),
                                      !["SP"] = MaskTo(msp, 4),
                                      !["PC"] = MaskTo(reset_vector, 4)]]

\* Clock.tick: the count moves first, then the CPU subscriber runs `cycles`
\* instructions: [exc, cycle_count, regs, executed, watch_hit]
Clock_tick(count, r, n, w, cycles, outcomes) ==
    IF cycles < 0
    THEN [exc |-> "ValueError", cycle_count |-> count, regs |-> r, executed |-> n,
          watch_hit |-> w]
    ELSE IF cycles = 0
    THEN [exc |-> "None", cycle_count |-> count, regs |-> r, executed |-> n,
          watch_hit |-> w]
    ELSE LET cpu == CortexM_tick(r, n, w, outcomes)
         IN [exc |-> cpu.exc, cycle_count |-> count + cycles,
             regs |-> cpu.regs, executed |-> cpu.executed,
             watch_hit |-> cpu.watch_hit]

\* Clock.reset
Clock_reset(count) == 0

\* InterruptEvent(source, vector, timestamp): the timestamp is the clock's
\* cycle count, or None (<< >>) for a controller built without a clock
InterruptEvent(has_clock, count, source, vector) ==
    [source |-> source, vector |-> vector,
     timestamp |-> IF has_clock THEN <<count>> ELSE << >>]

\* variant: the event is delivered to the CPU before and after it is queued
CortexM_handle_interrupt_twice(queue, event) == Append(Append(queue, event), event)

\* CortexM.handle_interrupt: the event is queued on the CPU
CortexM_handle_interrupt(queue, event) == Append(queue, event)

\* InterruptController.notify: [pending, cpu]
InterruptController_notify(queue, cpu_queue, has_clock, attached, count, source, vector) ==
    LET event == InterruptEvent(has_clock, count, source, vector)
    IN [pending |-> Append(queue, event),
        cpu |-> IF attached THEN CortexM_handle_interrupt(cpu_queue, event)
                ELSE cpu_queue]

\* InterruptController.reset
InterruptController_reset(queue) == << >>

(***************************************************************************)
(* Operations on the board (stm32/board.py, tm4c/board.py)                 *)
(***************************************************************************)

\* board.step(cycles): clock.tick(cycles)
BoardStep(cycles, outcomes) ==
    LET r == Clock_tick(cycle_count, regs, executed, watch_hit, cycles, outcomes)
    IN /\ cycle_count + cycles <= MaxCycles
       /\ executed + cycles <= MaxExecuted
       /\ cycle_count' = r.cycle_count
       /\ regs' = r.regs
       /\ executed' = r.executed
       /\ watch_hit' = r.watch_hit
       /\ call' = <<"board_step", cycles>>
       /\ exc' = r.exc
       /\ UNCHANGED <<envVars, memVars, gpioVars, pending, halt_requested, lock, breakpoints,
                      at, steps, max_steps, stop>>

\* interrupt_ctrl.notify(source, vector)
Notify(source, vector) ==
    LET r == InterruptController_notify(pending, cpu_pending, irq_clock, cpu_attached,
                                        cycle_count, source, vector)
    IN /\ Len(cpu_pending) < MaxDelivered
       /\ pending' = r.pending
       /\ cpu_pending' = r.cpu
       /\ call' = <<"notify", source, vector>>
       /\ exc' = "None"
       /\ UNCHANGED <<protoVars, subVars, registers, irq_clock, cpu_attached, engine_sram, pc_read,
                      engine_flash, memVars, gpioVars, cycle_count, regs, dbgVars>>

\* board.reset(): address space (RAM and every registered peripheral), CPU,
\* interrupt controller, clock, in this order; an exception from the CPU
\* reset leaves the later steps undone
BoardReset ==
    LET mem == AddressSpace_reset(sram_data, peripherals)
        cpu == CortexM_reset(flash_data, regs)
    IN /\ sram_data' = mem.sram
       /\ peripherals' = mem.periphs
       /\ odr' = STM32GPIO_reset(odr)
       /\ tm4c_data' = TM4C123GPIO_reset(tm4c_data)
       /\ regs' = cpu.regs
       /\ pending' = IF cpu.exc = "None" THEN InterruptController_reset(pending)
                     ELSE pending
       /\ cycle_count' = IF cpu.exc = "None" THEN Clock_reset(cycle_count)
                         ELSE cycle_count
       /\ call' = <<"board_reset">>
       /\ exc' = cpu.exc
       /\ engine_flash' = flash_data
       /\ UNCHANGED <<resetRest, flash_data, periph_bases, external_inputs, dbgVars>>

(***************************************************************************)
(* SpecBoard: a board in use, then reset                                   *)
(***************************************************************************)

NextBoard ==
    \/ Write(SramBase, 4, ValA)
    \/ LoadImage(ImageGood)
    \/ Stm32Write(REG_ODR, 4, {0})
    \/ Stm32SetPin(0, 1)
    \/ Tm4cWrite(DataOffset + 4, 4, {0})
    \/ \E cycles \in {-1, 0} : BoardStep(cycles, << >>)
    \/ \E o \in {x \in EngineOutcomes : ~x.hit} : BoardStep(1, <<o>>)
    \/ (Len(pending) < MaxPending /\ Notify("gpio", <<2>>))
    \/ BoardReset

SpecBoard == Init /\ [][NextBoard]_vars

\* C5: after board.reset(), from any reachable prior state, every RAM byte
\* is zero, every peripheral register reads its reset value, the clock cycle
\* count is 0, the interrupt controller's pending queue is empty, and flash
\* is unchanged.
C5_ResetPostcondition ==
    [][(call'[1] = "board_reset")
       => /\ \A k \in 0..(SramSize - 1) : sram_data'[k] = {}
          /\ \A offset \in {REG_IDR, REG_ODR, REG_BSRR} :
                STM32GPIO_read(odr', external_inputs', offset, 4).value = {}
          /\ TM4C123GPIO_read(tm4c_data', DataOffset, 4).value = {}
          /\ cycle_count' = 0
          /\ pending' = << >>
          /\ flash_data' = flash_data]_vars

(***************************************************************************)
(* Debug session (debug/session.py) served to several connections          *)
(* (debug/server.py).  The CPU's breakpoint set and watch hit are not in   *)
(* the sources; they follow the specification's description.               *)
(***************************************************************************)

\* cpu.is_breakpoint(pc): the PC equals a registered breakpoint
is_breakpoint(bps, pc) == pc \in bps

\* cpu.add_breakpoint(address)
add_breakpoint(bps, address) == bps \cup {address}

\* cpu.remove_breakpoint(address)
remove_breakpoint(bps, address) == bps \ {address}

\* the address a watch hit reports
WatchAddr == Bits(SramBase)

\* StopReason(reason, address) returned by `cmd` on connection `conn`
StopReason(cmd, conn, reason, address, detail) ==
    [cmd |-> cmd, conn |-> conn, reason |-> reason, address |-> address,
     detail |-> detail]

\* variant: the breakpoint at the new PC is looked for before the watch hit
DebugSession_step_body_breakpoint_first(bps, r, n, w, outcome) ==
    LET pc == r["PC"]
        one == CortexM_step(r, n, w, outcome)
        after == [regs |-> one.regs, executed |-> one.executed, watch_hit |-> one.watch_hit]
        pc_after == one.regs["PC"]
    IN IF is_breakpoint(bps, pc)
       THEN [reason |-> "breakpoint", detail |-> "None", address |-> pc,
             regs |-> r, executed |-> n, watch_hit |-> w]
       ELSE IF one.exc # "None"
       THEN [reason |-> "fault", address |-> pc, detail |-> one.exc] @@ after
       ELSE IF is_breakpoint(bps, pc_after)
       THEN [reason |-> "breakpoint", detail |-> "None", address |-> pc_after] @@ after
       ELSE IF one.watch_hit # "None"
       THEN [reason |-> "watchpoint", detail |-> "None", address |-> WatchAddr,
             regs |-> one.regs, executed |-> one.executed, watch_hit |-> "None"]
       ELSE [reason |-> "step", detail |-> "None", address |-> pc_after] @@ after

\* variant: the breakpoint set is looked at before the instruction only
DebugSession_step_body_no_post_check(bps, r, n, w, outcome) ==
    LET pc == r["PC"]
        one == CortexM_step(r, n, w, outcome)
        after == [regs |-> one.regs, executed |-> one.executed, watch_hit |-> one.watch_hit]
        pc_after == one.regs["PC"]
    IN IF is_breakpoint(bps, pc)
       THEN [reason |-> "breakpoint", detail |-> "None", address |-> pc,
             regs |-> r, executed |-> n, watch_hit |-> w]
       ELSE IF one.exc # "None"
       THEN [reason |-> "fault", address |-> pc, detail |-> one.exc] @@ after
       ELSE IF one.watch_hit # "None"
       THEN [reason |-> "watchpoint", detail |-> "None", address |-> WatchAddr,
             regs |-> one.regs, executed |-> one.executed, watch_hit |-> "None"]
       ELSE [reason |-> "step", detail |-> "None", address |-> pc_after] @@ after

\* variant: an engine error is not caught apart from the other outcomes, the
\* step reports where the PC is
DebugSession_step_body_fault_as_step(bps, r, n, w, outcome) ==
    LET pc == r["PC"]
        one == CortexM_step(r, n, w, outcome)
        after == [regs |-> one.regs, executed |-> one.executed, watch_hit |-> one.watch_hit]
        pc_after == one.regs["PC"]
    IN IF is_breakpoint(bps, pc)
       THEN [reason |-> "breakpoint", detail |-> "None", address |-> pc,
             regs |-> r, executed |-> n, watch_hit |-> w]
       ELSE IF one.watch_hit # "None"
       THEN [reason |-> "watchpoint", detail |-> "None", address |-> WatchAddr,
             regs |-> one.regs, executed |-> one.executed, watch_hit |-> "None"]
       ELSE IF is_breakpoint(bps, pc_after)
       THEN [reason |-> "breakpoint", detail |-> "None", address |-> pc_after] @@ after
       ELSE [reason |-> "step", detail |-> "None", address |-> pc_after] @@ after

\* DebugSession.step, the part under the lock:
\* [reason, address, detail, regs, executed, watch_hit]
DebugSession_step_body(bps, r, n, w, outcome) ==
    LET pc == r["PC"]
        one == CortexM_step(r, n, w, outcome)
        after == [regs |-> one.regs, executed |-> one.executed, watch_hit |-> one.watch_hit]
        pc_after == one.regs["PC"]
    IN IF is_breakpoint(bps, pc)
       THEN [reason |-> "breakpoint", detail |-> "None", address |-> pc,
             regs |-> r, executed |-> n, watch_hit |-> w]
       ELSE IF one.exc # "None"
       THEN [reason |-> "fault", address |-> pc, detail |-> one.exc] @@ after
       ELSE IF one.watch_hit # "None"
       THEN [reason |-> "watchpoint", detail |-> "None", address |-> WatchAddr,
             regs |-> one.regs, executed |-> one.executed, watch_hit |-> "None"]
       ELSE IF is_breakpoint(bps, pc_after)
       THEN [reason |-> "breakpoint", detail |-> "None", address |-> pc_after] @@ after
       ELSE [reason |-> "step", detail |-> "None", address |-> pc_after] @@ after

\* variant: the loop body steps without looking at the breakpoint set first
DebugSession_run_body_no_entry_check(bps, r, n, w, count, limit, outcome) ==
    LET pc == r["PC"]
        one == CortexM_step(r, n, w, outcome)
        after == [regs |-> one.regs, executed |-> one.executed, watch_hit |-> one.watch_hit]
    IN IF one.exc # "None"
       THEN [returned |-> TRUE, reason |-> "fault", address |-> pc,
             detail |-> one.exc, steps |-> count] @@ after
       ELSE IF one.watch_hit # "None"
       THEN [returned |-> TRUE, reason |-> "watchpoint", detail |-> "None", address |-> WatchAddr,
             steps |-> count,
             regs |-> one.regs, executed |-> one.executed, watch_hit |-> "None"]
       ELSE IF limit # << >> /\ count + 1 >= limit[1]
       THEN [returned |-> TRUE, reason |-> "limit", detail |-> "None", address |-> one.regs["PC"],
             steps |-> count + 1] @@ after
       ELSE [returned |-> FALSE, reason |-> "None", detail |-> "None", address |-> {},
             steps |-> count + 1] @@ after

\* DebugSession.run, one pass through the locked part of the loop:
\* [returned, reason, address, steps, regs, executed, watch_hit]
DebugSession_run_body(bps, r, n, w, count, limit, outcome) ==
    LET pc == r["PC"]
        one == CortexM_step(r, n, w, outcome)
        after == [regs |-> one.regs, executed |-> one.executed, watch_hit |-> one.watch_hit]
    IN IF is_breakpoint(bps, pc)
       THEN [returned |-> TRUE, reason |-> "breakpoint", detail |-> "None", address |-> pc, steps |-> count,
             regs |-> r, executed |-> n, watch_hit |-> w]
       ELSE IF one.exc # "None"
       THEN [returned |-> TRUE, reason |-> "fault", address |-> pc,
             detail |-> one.exc, steps |-> count] @@ after
       ELSE IF one.watch_hit # "None"
       THEN [returned |-> TRUE, reason |-> "watchpoint", detail |-> "None", address |-> WatchAddr,
             steps |-> count,
             regs |-> one.regs, executed |-> one.executed, watch_hit |-> "None"]
       ELSE IF limit # << >> /\ count + 1 >= limit[1]
       THEN [returned |-> TRUE, reason |-> "limit", detail |-> "None", address |-> one.regs["PC"],
             steps |-> count + 1] @@ after
       ELSE [returned |-> FALSE, reason |-> "None", detail |-> "None", address |-> {},
             steps |-> count + 1] @@ after

\* variant: the context manager a BoardBackend built without a lock uses
nullcontext_acquire(owner, t) == TRUE

\* threading.RLock: `with self._lock` is entered when no other thread owns it
RLock_acquire(owner, t) == owner = 0 \/ owner = t

\* what the debug commands below never touch
boardRest == <<memVars, gpioVars, cycle_count, pending, call, exc>>

\* the state the server starts serving from: firmware loaded, board.reset()
\* done, the session constructed with the halt flag clear
InitDebug ==
    /\ flash_data = FlashMemory_load_image(ZeroBytes(FlashSize), ImageGood).data
    /\ sram_data = ZeroBytes(SramSize)
    /\ periph_bases = << >>
    /\ peripherals = << >>
    /\ odr = {}
    /\ external_inputs = << >>
    /\ tm4c_data = {}
    /\ cycle_count = 0
    /\ pending = << >>
    /\ regs = CortexM_reset(FlashMemory_load_image(ZeroBytes(FlashSize), ImageGood).data,
                            [r \in RegNames |-> {}]).regs
    /\ halt_requested = FALSE
    /\ lock = 0
    /\ breakpoints = {}
    /\ watch_hit = "None"
    /\ executed = 0
    /\ at = [c \in Threads |-> "idle"]
    /\ steps = [c \in Conns |-> 0]
    /\ max_steps = [c \in Conns |-> << >>]
    /\ stop = [cmd |-> "None", conn |-> 0, reason |-> "None", address |-> {},
             detail |-> "None"]
    /\ call = <<"board_reset">>
    /\ exc = "None"
    /\ lines = [c \in Conns |-> << >>]
    /\ responses = [c \in Conns |-> << >>]
    /\ open = [c \in Conns |-> TRUE]
    /\ subscribers = [s \in SubscriberKinds |-> [calls |-> 0, cycles |-> 0]]
    /\ ticks = << >>
    /\ registers = [o \in RegOffsets |-> << >>]
    /\ cpu_pending = << >>
    /\ irq_clock = TRUE
    /\ cpu_attached = TRUE
    /\ engine_flash = FlashMemory_load_image(ZeroBytes(FlashSize), ImageGood).data
    /\ engine_sram = ZeroBytes(SramSize)
    /\ pc_read = [c \in Conns |-> {}]

\* `halt`: request_halt(), no lock taken
Halt(c) ==
    /\ at[c] = "idle"
    /\ halt_requested' = TRUE
    /\ UNCHANGED <<envVars, boardRest, regs, lock, breakpoints, watch_hit, executed,
                   at, steps, max_steps, stop>>

\* `set_bp`: add_breakpoint under the lock
SetBreakpoint(c, address) ==
    /\ at[c] = "idle"
    /\ RLock_acquire(lock, c)
    /\ breakpoints' = add_breakpoint(breakpoints, address)
    /\ UNCHANGED <<envVars, boardRest, regs, halt_requested, lock, watch_hit, executed,
                   at, steps, max_steps, stop>>

\* `clear_bp`: remove_breakpoint under the lock
ClearBreakpoint(c, address) ==
    /\ at[c] = "idle"
    /\ RLock_acquire(lock, c)
    /\ breakpoints' = remove_breakpoint(breakpoints, address)
    /\ UNCHANGED <<envVars, boardRest, regs, halt_requested, lock, watch_hit, executed,
                   at, steps, max_steps, stop>>

\* `step` begins: clear_halt(), before the lock is taken
StepStart(c) ==
    /\ at[c] = "idle"
    /\ halt_requested' = FALSE
    /\ at' = [at EXCEPT ![c] = "step_wait"]
    /\ UNCHANGED <<envVars, boardRest, regs, lock, breakpoints, watch_hit, executed,
                   steps, max_steps, stop>>

\* step: `with self._lock` entered
StepAcquire(c) ==
    /\ at[c] = "step_wait"
    /\ RLock_acquire(lock, c)
    /\ lock' = c
    /\ at' = [at EXCEPT ![c] = "step_locked"]
    /\ UNCHANGED <<envVars, boardRest, regs, halt_requested, breakpoints, watch_hit, executed,
                   steps, max_steps, stop>>

\* step: the locked body runs and returns its StopReason
StepBody(c, outcome) ==
    LET r == DebugSession_step_body(breakpoints, regs, executed, watch_hit, outcome)
    IN /\ at[c] = "step_locked"
       /\ r.executed <= MaxExecuted
       /\ regs' = r.regs
       /\ executed' = r.executed
       /\ watch_hit' = r.watch_hit
       /\ stop' = StopReason("step", c, r.reason, r.address, r.detail)
       /\ lock' = 0
       /\ at' = [at EXCEPT ![c] = "idle"]
       /\ UNCHANGED <<envVars, boardRest, halt_requested, breakpoints, steps, max_steps>>

\* `run` begins: clear_halt() and steps = 0, before the loop
RunStart(c, limit) ==
    /\ at[c] = "idle"
    /\ halt_requested' = FALSE
    /\ steps' = [steps EXCEPT ![c] = 0]
    /\ max_steps' = [max_steps EXCEPT ![c] = limit]
    /\ at' = [at EXCEPT ![c] = "run_check"]
    /\ UNCHANGED <<envVars, boardRest, regs, lock, breakpoints, watch_hit, executed, stop>>

\* run: `if self._halt_requested`, read outside the lock
RunCheck(c) ==
    /\ at[c] = "run_check"
    /\ at' = [at EXCEPT ![c] = IF halt_requested THEN "run_halt_wait" ELSE "run_wait"]
    /\ UNCHANGED <<envVars, boardRest, regs, halt_requested, lock, breakpoints, watch_hit,
                   executed, steps, max_steps, stop>>

\* run: the halt branch reads the PC under the lock and returns `halt`
RunHalt(c) ==
    /\ at[c] = "run_halt_wait"
    /\ RLock_acquire(lock, c)
    /\ stop' = StopReason("run", c, "halt", regs["PC"], "None")
    /\ at' = [at EXCEPT ![c] = "idle"]
    /\ steps' = [steps EXCEPT ![c] = 0]
    /\ max_steps' = [max_steps EXCEPT ![c] = << >>]
    /\ UNCHANGED <<envVars, boardRest, regs, halt_requested, lock, breakpoints, watch_hit, executed>>

\* run: `with self._lock` of the loop body entered
RunAcquire(c) ==
    /\ at[c] = "run_wait"
    /\ RLock_acquire(lock, c)
    /\ lock' = c
    /\ at' = [at EXCEPT ![c] = "run_locked"]
    /\ UNCHANGED <<envVars, boardRest, regs, halt_requested, breakpoints, watch_hit, executed,
                   steps, max_steps, stop>>

\* run: the locked body runs; it returns a StopReason or goes round the loop
RunBody(c, outcome) ==
    LET r == DebugSession_run_body(breakpoints, regs, executed, watch_hit,
                                   steps[c], max_steps[c], outcome)
    IN /\ at[c] = "run_locked"
       /\ r.executed <= MaxExecuted
       /\ regs' = r.regs
       /\ executed' = r.executed
       /\ watch_hit' = r.watch_hit
       /\ lock' = 0
       /\ IF r.returned
          THEN /\ stop' = StopReason("run", c, r.reason, r.address, r.detail)
               /\ at' = [at EXCEPT ![c] = "idle"]
               /\ steps' = [steps EXCEPT ![c] = 0]
               /\ max_steps' = [max_steps EXCEPT ![c] = << >>]
          ELSE /\ at' = [at EXCEPT ![c] = "run_check"]
               /\ steps' = [steps EXCEPT ![c] = r.steps]
               /\ UNCHANGED <<stop, max_steps>>
       /\ UNCHANGED <<envVars, boardRest, halt_requested, breakpoints>>

(***************************************************************************)
(* SpecDebug: two debugger connections on one session                      *)
(***************************************************************************)

\* the addresses breakpoints are put on: the reset vector and one instruction
BpAddrs == {Bits(FlashBase + 9), Bits(FlashBase + 8)}

\* the max_steps arguments of run
RunLimits == {<< >>, <<0>>, <<1>>}

NextDebug ==
    \E c \in Conns :
        \/ Halt(c)
        \/ \E a \in BpAddrs : SetBreakpoint(c, a)
        \/ \E a \in BpAddrs : ClearBreakpoint(c, a)
        \/ StepStart(c)
        \/ StepAcquire(c)
        \/ \E o \in EngineOutcomes : StepBody(c, o)
        \/ \E limit \in RunLimits : RunStart(c, limit)
        \/ RunCheck(c)
        \/ RunHalt(c)
        \/ RunAcquire(c)
        \/ \E o \in EngineOutcomes : RunBody(c, o)

SpecDebug == InitDebug /\ [][NextDebug]_vars

(***************************************************************************)
(* Properties of the debug session                                         *)
(***************************************************************************)

\* connection c leaves the locked part of the run loop in this step
RunBodyStep(c) == at[c] = "run_locked" /\ at'[c] # "run_locked"

\* C8: a run whose first look at the PC finds a registered breakpoint returns
\* stop reason `breakpoint` with address = PC without executing any
\* instruction: the PC, the step count and all board state are unchanged.
C8_RunStopsAtEntryBreakpoint ==
    [][\A c \in Conns :
          (RunBodyStep(c) /\ steps[c] = 0 /\ regs["PC"] \in breakpoints)
          => /\ at'[c] = "idle"
             /\ stop' = [cmd |-> "run", conn |-> c, reason |-> "breakpoint",
                         address |-> regs["PC"], detail |-> "None"]
             /\ executed' = executed
             /\ regs' = regs
             /\ UNCHANGED <<memVars, gpioVars, cycle_count, pending, watch_hit,
                            breakpoints>>]_vars

\* a run on connection 1 returned `breakpoint` at the reset vector before any
\* instruction was executed
C8_Witness ==
    /\ stop = [cmd |-> "run", conn |-> 1, reason |-> "breakpoint",
               address |-> Bits(FlashBase + 9), detail |-> "None"]
    /\ executed = 0
    /\ at[1] = "idle"

\* C9: within one run iteration, after an instruction executes without a
\* fault and without a watch hit, if the new PC is a registered breakpoint
\* the run returns `breakpoint` in that same iteration, before the step count
\* is incremented and before the limit or a halt request is considered
\* (run(max_steps=1) landing on a breakpoint reports `breakpoint`, not `limit`).
C9_RunStopsAtLandingBreakpoint ==
    [][\A c \in Conns :
          (/\ RunBodyStep(c)
           /\ executed' = executed + 1
           /\ ~(at'[c] = "idle" /\ stop'.reason = "watchpoint")
           /\ regs'["PC"] \in breakpoints')
          => /\ at'[c] = "idle"
             /\ stop' = [cmd |-> "run", conn |-> c, reason |-> "breakpoint",
                         address |-> regs'["PC"], detail |-> "None"]]_vars

\* connection c is inside a run that has not yet seen the halt flag set
RunInProgress(c) == at[c] \in {"run_check", "run_wait", "run_locked"}

\* C10: a halt requested while a run is in progress is never lost: under
\* every interleaving with commands on other connections, including a
\* concurrent step or run, the flag stays set until the run has seen it.
C10_HaltNeverLost ==
    [][\A c \in Conns :
          (halt_requested /\ RunInProgress(c) /\ RunInProgress(c)')
          => halt_requested']_vars

\* the engine outcomes in which the engine raises
Faults == {o \in EngineOutcomes : o.fault}

\* C13: when the engine raises during a step or a run iteration, the command
\* returns `fault` with address = the PC read before the instruction and
\* detail = the error message; no instruction is counted, a run leaves its
\* loop, and the mutex is free again so that the session serves the next
\* command.
C13_FaultStop ==
    [][\A c \in Conns : \A o \in Faults :
          (/\ StepBody(c, o) \/ RunBody(c, o)
           /\ ~is_breakpoint(breakpoints, regs["PC"]))
          => /\ stop' = [cmd |-> IF at[c] = "step_locked" THEN "step" ELSE "run",
                         conn |-> c, reason |-> "fault",
                         address |-> regs["PC"], detail |-> "UcError"]
             /\ executed' = executed
             /\ at'[c] = "idle"
             /\ lock' = 0]_vars

\* a run that had executed an instruction returned `fault` at the address
\* that instruction had jumped to
C13_Witness ==
    /\ stop.cmd = "run"
    /\ stop.reason = "fault"
    /\ stop.address = Bits(FlashBase + 10)
    /\ executed = 1
    /\ at[stop.conn] = "idle"

\* a step on a breakpoint: `breakpoint` at the PC, nothing executed, the
\* PC and the board as they were
StepOnBreakpoint(c) ==
    /\ stop' = [cmd |-> "step", conn |-> c, reason |-> "breakpoint",
                address |-> regs["PC"], detail |-> "None"]
    /\ executed' = executed
    /\ regs' = regs
    /\ UNCHANGED <<memVars, gpioVars, cycle_count, pending, watch_hit, breakpoints>>

\* a step that landed on a breakpoint: `breakpoint` at the new PC
StepOntoBreakpoint(c) ==
    /\ stop' = [cmd |-> "step", conn |-> c, reason |-> "breakpoint",
                address |-> regs'["PC"], detail |-> "None"]
    /\ executed' = executed + 1

\* C14 as stated: a step issued while the PC is a registered breakpoint
\* returns `breakpoint` with address = PC without executing the instruction;
\* a step that executes an instruction returns `breakpoint` when the PC after
\* it is a registered breakpoint.
C14_StepBreakpoint_AsStated ==
    [][\A c \in Conns : \A o \in EngineOutcomes :
          StepBody(c, o) =>
             /\ is_breakpoint(breakpoints, regs["PC"]) => StepOnBreakpoint(c)
             /\ (/\ ~is_breakpoint(breakpoints, regs["PC"])
                 /\ ~o.fault
                 /\ is_breakpoint(breakpoints, o.pc)) => StepOntoBreakpoint(c)]_vars

\* C14: a step issued while the PC is a registered breakpoint returns
\* `breakpoint` with address = PC without executing the instruction (PC and
\* board state unchanged); a step that executes an instruction which records
\* no watch hit returns `breakpoint` when the PC after it is a registered
\* breakpoint.
C14_StepBreakpoint ==
    [][\A c \in Conns : \A o \in EngineOutcomes :
          StepBody(c, o) =>
             /\ is_breakpoint(breakpoints, regs["PC"]) => StepOnBreakpoint(c)
             /\ (/\ ~is_breakpoint(breakpoints, regs["PC"])
                 /\ ~o.fault
                 /\ ~o.hit
                 /\ is_breakpoint(breakpoints, o.pc)) => StepOntoBreakpoint(c)]_vars

\* a step executed the first instruction and stopped on the breakpoint it
\* landed on
C14_Witness ==
    /\ stop.cmd = "step"
    /\ stop.reason = "breakpoint"
    /\ stop.address = Bits(FlashBase + 8)
    /\ executed = 1
    /\ regs["PC"] = Bits(FlashBase + 8)
    /\ Bits(FlashBase + 9) \notin breakpoints

\* C16: run with max_steps = 0, started with no halt pending and a PC that
\* is not a breakpoint, executes zero instructions and returns `limit`
\* immediately: its first pass through the loop body leaves the registers
\* and the instruction count alone and returns `limit` at the PC.
C16_RunZeroSteps ==
    [][\A c \in Conns :
          (/\ RunBodyStep(c)
           /\ max_steps[c] = <<0>>
           /\ steps[c] = 0
           /\ ~is_breakpoint(breakpoints, regs["PC"]))
          => /\ executed' = executed
             /\ regs' = regs
             /\ at'[c] = "idle"
             /\ stop' = [cmd |-> "run", conn |-> c, reason |-> "limit",
                         address |-> regs["PC"], detail |-> "None"]]_vars

(***************************************************************************)
(* The board mutex shared by the debug session and the GUI backend         *)
(* (debug/session.py, simulator_gui/backend.py, debug/server.py main)      *)
(***************************************************************************)

\* what neither a register write nor a GUI read touches
sessionRest == <<halt_requested, breakpoints, steps, max_steps, stop>>

\* `reset`: board.reset() under the lock
DebugReset(c) ==
    LET mem == AddressSpace_reset(sram_data, peripherals)
        cpu == CortexM_reset(flash_data, regs)
    IN /\ at[c] = "idle"
       /\ RLock_acquire(lock, c)
       /\ sram_data' = mem.sram
       /\ peripherals' = mem.periphs
       /\ odr' = STM32GPIO_reset(odr)
       /\ tm4c_data' = TM4C123GPIO_reset(tm4c_data)
       /\ regs' = cpu.regs
       /\ pending' = IF cpu.exc = "None" THEN InterruptController_reset(pending)
                     ELSE pending
       /\ cycle_count' = IF cpu.exc = "None" THEN Clock_reset(cycle_count)
                         ELSE cycle_count
       /\ call' = <<"debug_reset", c>>
       /\ exc' = cpu.exc
       /\ engine_flash' = flash_data
       /\ UNCHANGED <<resetRest, flash_data, periph_bases, external_inputs, sessionRest,
                      lock, watch_hit, executed, at>>

\* `write_reg`: cpu.set_register(index, value) under the lock; the engine
\* keeps the low 32 bits
WriteRegister(c, name, value) ==
    /\ at[c] = "idle"
    /\ RLock_acquire(lock, c)
    /\ regs' = [regs EXCEPT ![name] = MaskTo(value, 4)]
    /\ call' = <<"write_reg", c, name, value>>
    /\ exc' = "None"
    /\ UNCHANGED <<envVars, memVars, gpioVars, cycle_count, pending, sessionRest,
                   lock, watch_hit, executed, at>>

\* BoardBackend method entered: `with self.lock`
GuiAcquire(op) ==
    /\ at[Gui] = "idle"
    /\ RLock_acquire(lock, Gui)
    /\ lock' = Gui
    /\ at' = [at EXCEPT ![Gui] = op]
    /\ UNCHANGED <<envVars, boardRest, regs, sessionRest, watch_hit, executed>>

\* BoardBackend.step(cycles): board.step under the lock, then the lock is left
GuiStep(cycles, outcomes) ==
    LET r == Clock_tick(cycle_count, regs, executed, watch_hit, cycles, outcomes)
    IN /\ at[Gui] = "gui_step"
       /\ cycle_count + cycles <= MaxCycles
       /\ executed + cycles <= MaxExecuted
       /\ cycle_count' = r.cycle_count
       /\ regs' = r.regs
       /\ executed' = r.executed
       /\ watch_hit' = r.watch_hit
       /\ call' = <<"gui_step", cycles>>
       /\ exc' = r.exc
       /\ lock' = 0
       /\ at' = [at EXCEPT ![Gui] = "idle"]
       /\ UNCHANGED <<envVars, memVars, gpioVars, pending, sessionRest>>

\* BoardBackend.reset(): board.reset under the lock
GuiReset ==
    LET mem == AddressSpace_reset(sram_data, peripherals)
        cpu == CortexM_reset(flash_data, regs)
    IN /\ at[Gui] = "gui_reset"
       /\ sram_data' = mem.sram
       /\ peripherals' = mem.periphs
       /\ odr' = STM32GPIO_reset(odr)
       /\ tm4c_data' = TM4C123GPIO_reset(tm4c_data)
       /\ regs' = cpu.regs
       /\ pending' = IF cpu.exc = "None" THEN InterruptController_reset(pending)
                     ELSE pending
       /\ cycle_count' = IF cpu.exc = "None" THEN Clock_reset(cycle_count)
                         ELSE cycle_count
       /\ call' = <<"gui_reset">>
       /\ exc' = cpu.exc
       /\ lock' = 0
       /\ at' = [at EXCEPT ![Gui] = "idle"]
       /\ engine_flash' = flash_data
       /\ UNCHANGED <<resetRest, flash_data, periph_bases, external_inputs, sessionRest,
                      watch_hit, executed>>

\* BoardBackend.write(address, size, value): board.write under the lock
GuiWrite(address, size, value) ==
    LET r == AddressSpace_write(flash_data, sram_data, periph_bases, peripherals,
                                address, size, value)
    IN /\ at[Gui] = "gui_write"
       /\ flash_data' = r.flash
       /\ sram_data' = r.sram
       /\ peripherals' = r.periphs
       /\ call' = <<"gui_write", address, size, value>>
       /\ exc' = r.exc
       /\ lock' = 0
       /\ at' = [at EXCEPT ![Gui] = "idle"]
       /\ UNCHANGED <<envVars, periph_bases, gpioVars, boardVars, sessionRest,
                      watch_hit, executed>>

\* BoardBackend.read / cpu_snapshot: the board is read under the lock
GuiRead(address, size) ==
    /\ at[Gui] = "gui_read"
    /\ call' = <<"gui_read", address, size>>
    /\ exc' = AddressSpace_read(flash_data, sram_data, periph_bases, peripherals,
                                address, size).exc
    /\ lock' = 0
    /\ at' = [at EXCEPT ![Gui] = "idle"]
    /\ UNCHANGED <<envVars, memVars, gpioVars, boardVars, sessionRest, watch_hit, executed>>

(***************************************************************************)
(* SpecMutex: two debugger connections and the GUI on one board            *)
(***************************************************************************)

\* what the engine does with an instruction here: it lands on the next one
MutexOutcomes == {x \in EngineOutcomes : ~x.fault /\ ~x.hit /\ x.pc = Bits(FlashBase + 10)}

\* the BoardBackend methods the GUI thread calls
GuiOps == {"gui_step", "gui_reset", "gui_write", "gui_read"}

NextMutex ==
    \/ \E c \in Conns :
        \/ DebugReset(c)
        \/ WriteRegister(c, "R0", ValA)
        \/ SetBreakpoint(c, Bits(FlashBase + 10))
        \/ StepStart(c)
        \/ StepAcquire(c)
        \/ \E o \in MutexOutcomes : StepBody(c, o)
        \/ RunStart(c, <<1>>)
        \/ RunCheck(c)
        \/ RunAcquire(c)
        \/ \E o \in MutexOutcomes : RunBody(c, o)
    \/ \E op \in GuiOps : GuiAcquire(op)
    \/ \E o \in MutexOutcomes : GuiStep(1, <<o>>)
    \/ GuiReset
    \/ GuiWrite(SramBase, 4, ValA)
    \/ GuiRead(SramBase, 4)

SpecMutex == InitDebug /\ [][NextMutex]_vars

\* the positions at which a thread is inside a board operation
Inside(t) == at[t] \in {"step_locked", "run_locked"} \cup GuiOps

\* everything a board operation reads or writes
boardState == <<memVars, gpioVars, boardVars, breakpoints, watch_hit, executed>>

\* C11: a thread is inside a board operation only while it owns the board
\* mutex, so at most one thread is inside at any time, and the board state
\* changes only in a step of the thread that owns the mutex or of a thread
\* that takes the free mutex for the whole operation
C11_BoardMutex ==
    [][/\ \A t \in Threads : Inside(t)' => lock' = t
       /\ \A t, u \in Threads : (Inside(t)' /\ Inside(u)') => t = u
       /\ (boardState' # boardState) =>
              (lock = 0 \/ (lock \in Threads /\ at'[lock] # at[lock]))]_vars

\* one connection is inside its run loop body while the GUI and the other
\* connection wait with a board operation of their own
C11_Witness ==
    /\ at[1] = "run_locked"
    /\ lock = 1
    /\ at[2] = "step_wait"
    /\ at[Gui] = "idle"
    /\ executed > 0

(***************************************************************************)
(* The request/response protocol (debug/server.py, debug/session.py)       *)
(***************************************************************************)

\* A request line is modelled by what json.loads makes of it: whether it
\* parses, and for an object the members `id`, `cmd` and `address`
\* (<< >> when the member is absent, <<v>> when present).  A `cmd` value is
\* [type, text]: its JSON type and, for a string, the string.
Str(text) == <<[type |-> "str", text |-> text]>>

\* the lines no JSON parser accepts
MalformedLine == [json |-> FALSE, id |-> << >>, cmd |-> << >>, address |-> << >>]

\* json.loads(line.decode("utf-8")): [exc, request]
json_loads(line) ==
    IF line.json
    THEN [exc |-> "None", request |-> [id |-> line.id, cmd |-> line.cmd,
                                       address |-> line.address]]
    ELSE [exc |-> "JSONDecodeError", request |-> [id |-> << >>, cmd |-> << >>,
                                                  address |-> << >>]]

\* the keys of the `handlers` dictionary that the connections use here
Handlers == {"hello", "set_bp"}

\* a response envelope; has_id tells whether the object has an "id" member
Envelope(has_id, id, ok, text) ==
    [has_id |-> has_id, id |-> id, ok |-> ok, text |-> text]

\* DebugSession.handle_request: [exc, breakpoints, response]; when exc is
\* not "None" the call raised and there is no response
DebugSession_handle_request(bps, request) ==
    LET req_id == request.id
        cmd == request.cmd
    IN IF cmd = << >> \/ cmd[1].type # "str"
       THEN [exc |-> "ValueError", breakpoints |-> bps,
             response |-> Envelope(FALSE, << >>, FALSE, "")]
       ELSE IF cmd[1].text \notin Handlers
       THEN [exc |-> "None", breakpoints |-> bps,
             response |-> Envelope(TRUE, req_id, FALSE, "Unknown command")]
       ELSE IF cmd[1].text = "hello"
       THEN [exc |-> "None", breakpoints |-> bps,
             response |-> Envelope(TRUE, req_id, TRUE, "version")]
       ELSE IF request.address = << >>
       THEN [exc |-> "None", breakpoints |-> bps,
             response |-> Envelope(TRUE, req_id, FALSE, "'address'")]
       ELSE [exc |-> "None",
             breakpoints |-> add_breakpoint(bps, request.address[1]),
             response |-> Envelope(TRUE, req_id, TRUE, "status")]

\* _DebugHandler.handle, one pass through the loop: [exc, breakpoints, response]
DebugHandler_handle(bps, line) ==
    LET parsed == json_loads(line)
    IN IF parsed.exc # "None"
       THEN [exc |-> "None", breakpoints |-> bps,
             response |-> Envelope(FALSE, << >>, FALSE, "Invalid JSON")]
       ELSE DebugSession_handle_request(bps, parsed.request)

\* the number of request lines the connections send, all together
MaxLines == 3

\* the handler thread of connection c reads a line and deals with it; an
\* exception that leaves handle() ends the thread and closes the socket
HandleLine(c, line) ==
    LET r == DebugHandler_handle(breakpoints, line)
    IN /\ open[c]
       /\ at[c] = "idle"
       /\ Len(lines[1]) + Len(lines[2]) < MaxLines
       /\ RLock_acquire(lock, c)
       /\ lines' = [lines EXCEPT ![c] = Append(@, line)]
       /\ breakpoints' = r.breakpoints
       /\ IF r.exc = "None"
          THEN /\ responses' = [responses EXCEPT ![c] = Append(@, r.response)]
               /\ open' = open
          ELSE /\ responses' = responses
               /\ open' = [open EXCEPT ![c] = FALSE]
       /\ UNCHANGED <<subVars, moreVars, engine_flash, boardRest, regs, halt_requested, lock, watch_hit,
                      executed, at, steps, max_steps, stop>>

(***************************************************************************)
(* SpecProto: two connections sending request lines                        *)
(***************************************************************************)

\* the request ids the clients use
RequestIds == {<<1>>, <<2>>}

\* the request lines: malformed JSON, and objects with a good command, an
\* unknown command, a `cmd` that is a number, no `cmd`, and set_bp with and
\* without its argument
ProtoLines ==
    {MalformedLine} \cup
    {[json |-> TRUE, id |-> i, cmd |-> k, address |-> a] :
        i \in RequestIds,
        k \in {Str("hello"), Str("bogus"), <<[type |-> "int", text |-> ""]>>, << >>},
        a \in {<< >>}} \cup
    {[json |-> TRUE, id |-> i, cmd |-> Str("set_bp"), address |-> a] :
        i \in RequestIds, a \in {<< >>, <<Bits(FlashBase + 10)>>}}

NextProto == \E c \in Conns : \E line \in ProtoLines : HandleLine(c, line)

SpecProto == InitDebug /\ [][NextProto]_vars

\* the request lines that are protocol errors
ProtocolError(line) ==
    \/ ~line.json
    \/ line.cmd = << >>
    \/ line.cmd[1].type # "str"
    \/ line.cmd[1].text \notin Handlers
    \/ (line.cmd[1].text = "set_bp" /\ line.address = << >>)

\* the line connection c has just read
LineRead(c) == lines'[c][Len(lines'[c])]

\* C12: whenever a handler reads a request line that is a protocol error
\* (malformed JSON, unknown command, missing or non-string cmd, missing
\* argument), it writes one envelope with ok=false and an error string, and
\* the connection stays open
C12_ProtocolErrorAnswered ==
    [][\A c \in Conns :
         (Len(lines'[c]) = Len(lines[c]) + 1 /\ ProtocolError(LineRead(c))) =>
            /\ Len(responses'[c]) = Len(responses[c]) + 1
            /\ ~responses'[c][Len(responses'[c])].ok
            /\ responses'[c][Len(responses'[c])].text # ""
            /\ open'[c]]_vars

\* the id a response to this line has to carry: the request's, or null
ExpectedId(line) == IF line.json THEN line.id ELSE << >>

\* C15: on each connection there is exactly one response per request line
\* read, in request order, and each response carries the id of its request
\* (null for a line that is not JSON)
C15_OneResponsePerRequest ==
    \A c \in Conns :
        /\ Len(responses[c]) = Len(lines[c])
        /\ \A i \in 1..Len(responses[c]) :
               responses[c][i].id = ExpectedId(lines[c][i])

(***************************************************************************)
(* The clock and its subscribers (core/clock.py, tests/core/test_clock.py) *)
(***************************************************************************)

\* Clock._repeat_call: fn() called `cycles` times on a subscriber whose tick
\* takes no argument
RECURSIVE repeat_call(_, _)
repeat_call(sub, cycles) ==
    IF cycles <= 0 THEN sub
    ELSE repeat_call([sub EXCEPT !.calls = @ + 1], cycles - 1)

\* Clock._notify_subscriber: tick(cycles) once when the subscriber accepts
\* the argument, otherwise (TypeError) tick() repeated
notify_subscriber(kind, sub, cycles) ==
    IF kind = "batched"
    THEN [calls |-> sub.calls + 1, cycles |-> sub.cycles + cycles]
    ELSE repeat_call(sub, cycles)

\* variant: the cycle count is set to the size of the batch
Clock_tick_all_overwrite(count, subs, cycles) ==
    IF cycles < 0
    THEN [exc |-> "ValueError", cycle_count |-> count, subscribers |-> subs]
    ELSE IF cycles = 0
    THEN [exc |-> "None", cycle_count |-> count, subscribers |-> subs]
    ELSE [exc |-> "None", cycle_count |-> cycles,
          subscribers |-> [k \in DOMAIN subs |-> notify_subscriber(k, subs[k], cycles)]]

\* Clock.tick with the subscribers of the clock tests:
\* [exc, cycle_count, subscribers]
Clock_tick_all(count, subs, cycles) ==
    IF cycles < 0
    THEN [exc |-> "ValueError", cycle_count |-> count, subscribers |-> subs]
    ELSE IF cycles = 0
    THEN [exc |-> "None", cycle_count |-> count, subscribers |-> subs]
    ELSE [exc |-> "None", cycle_count |-> count + cycles,
          subscribers |-> [k \in DOMAIN subs |-> notify_subscriber(k, subs[k], cycles)]]

\* the largest batch a tick call is given
MaxTick == 3

\* the number of tick calls
MaxTicks == 3

\* clock.tick(cycles)
ClockTick(cycles) ==
    LET r == Clock_tick_all(cycle_count, subscribers, cycles)
    IN /\ Len(ticks) < MaxTicks
       /\ cycle_count' = r.cycle_count
       /\ subscribers' = r.subscribers
       /\ ticks' = Append(ticks, cycles)
       /\ call' = <<"tick", cycles>>
       /\ exc' = r.exc
       /\ UNCHANGED <<protoVars, moreVars, engine_flash, memVars, gpioVars, pending, regs, dbgVars>>

NextClock == \E cycles \in -1..MaxTick : ClockTick(cycles)

SpecClock == Init /\ [][NextClock]_vars

\* a clock just constructed, with the two subscribers
Init_clock ==
    [cycle_count |-> 0,
     subscribers |-> [s \in SubscriberKinds |-> [calls |-> 0, cycles |-> 0]]]

\* the state of the clock and its subscribers after tick(a) on the state s
After(s, a) == Clock_tick_all(s.cycle_count, s.subscribers, a)

\* the clock as it stands
Now == [cycle_count |-> cycle_count, subscribers |-> subscribers]

\* C17: from every state of the clock, for all a, b >= 0, tick(a) followed
\* by tick(b) leaves the same cycle count and the same total number of cycles
\* delivered to a subscriber that accepts batches as one tick(a + b), and a
\* subscriber whose tick takes no argument is called exactly n times by
\* tick(n).
C17_TickAdditive ==
    \A a, b \in 0..MaxTick :
        /\ After(After(Now, a), b).cycle_count = After(Now, a + b).cycle_count
        /\ After(After(Now, a), b).subscribers["batched"].cycles
             = After(Now, a + b).subscribers["batched"].cycles
        /\ After(Now, a).cycle_count = cycle_count + a
        /\ After(Now, a).subscribers["batched"].cycles
             = subscribers["batched"].cycles + a
        /\ After(Now, a).subscribers["unit"].calls = subscribers["unit"].calls + a

\* after tick(1); tick(2) the clock and both subscribers stand where a single
\* tick(3) puts them, the batched subscriber having been called twice
C17_Witness ==
    /\ ticks = <<1, 2>>
    /\ cycle_count = 3
    /\ subscribers["batched"] = [calls |-> 2, cycles |-> 3]
    /\ subscribers["unit"] = [calls |-> 3, cycles |-> 0]
    /\ After(Init_clock, 3).cycle_count = 3
    /\ After(Init_clock, 3).subscribers["batched"].cycles = 3

(***************************************************************************)
(* SpecAccess: accesses of every size and alignment, mapped or not         *)
(***************************************************************************)

\* address_space.read(address, size)
ReadAt(address, size) ==
    /\ call' = <<"read", address, size>>
    /\ exc' = Read(address, size).exc
    /\ UNCHANGED <<envVars, memVars, gpioVars, boardVars, dbgVars>>

\* addresses in flash, in RAM, on and off a peripheral, in the bit-band
\* alias window, and outside every region
AccessAddrs ==
    {3, FlashBase, FlashBase + 2,
     SramBase, SramBase + 1, SramBase + 2, SramBase + SramSize + 1,
     PeriphBase, PeriphBase + 1, PeriphBase + 4,
     BitbandSramBase, BitbandSramBase + 2}

\* access sizes, the three good ones among them
AccessSizes == {0, 1, 2, 3, 4, 8}

NextAccess ==
    \/ RegisterPeripheral(PeriphBase, 4)
    \/ \E a \in AccessAddrs, size \in AccessSizes : Write(a, size, ValA)
    \/ \E a \in AccessAddrs, size \in AccessSizes : ReadAt(a, size)

SpecAccess == Init /\ [][NextAccess]_vars

\* the step is a read or a write of the address space
IsAccess == call'[1] \in {"read", "write"}

\* C18: AddressSpace.read and write reject an access whose size is not 1, 2
\* or 4 with an access error, and a misaligned access of size 2 or 4 with
\* an alignment error, whatever the address is (mapped or not) and without
\* changing any state; hence every access a region or a peripheral serves
\* has size 1, 2 or 4 and is naturally aligned.
C18_AccessValidatedFirst ==
    [][IsAccess =>
         /\ call'[3] \notin {1, 2, 4} =>
                (exc' = "MemoryAccessError" /\ UNCHANGED memVars)
         /\ (call'[3] \in {2, 4} /\ call'[2] % call'[3] # 0) =>
                (exc' = "MemoryAlignmentError" /\ UNCHANGED memVars)
         /\ (exc' = "None" \/ memVars' # memVars) =>
                (call'[3] \in {1, 2, 4} /\ call'[2] % call'[3] = 0)]_vars

\* a misaligned halfword write to an address nothing is mapped at has been
\* rejected for its alignment, after a word had been written to RAM
C18_Witness ==
    /\ call = <<"write", SramBase + SramSize + 1, 2, ValA>>
    /\ exc = "MemoryAlignmentError"
    /\ Read(SramBase, 4).value = MaskTo(ValA, 4)

(***************************************************************************)
(* SpecFlash: firmware images loaded, then writes and resets               *)
(***************************************************************************)

\* a two-byte image: 0x01, 0x82
ImageShort == <<{0}, {1, 7}>>

\* an image one byte longer than flash
ImageTooBig == [k \in 1..(FlashSize + 1) |-> {0}]

FlashImages == {ImageGood, ImageShort, ImageTooBig}

\* writes aimed at flash and at RAM
FlashWrites ==
    {<<FlashBase, 4>>, <<FlashBase, 1>>, <<FlashBase + 4, 2>>,
     <<FlashBase + FlashSize - 4, 4>>, <<SramBase, 4>>}

NextFlash ==
    \/ \E image \in FlashImages : LoadImage(image)
    \/ \E w \in FlashWrites : Write(w[1], w[2], ValA)
    \/ Reset
    \/ BoardReset

SpecFlash == Init /\ [][NextFlash]_vars

\* the little-endian value of bytes offset..offset+size-1 of the image d
ImageValue(d, offset, size) ==
    UNION {{b + 8 * k : b \in d[offset + k + 1]} : k \in 0..(size - 1)}

\* C19: flash contents change only through a successful load_image; right
\* after load_image(d) every aligned flash read that lies within the first
\* len(d) bytes returns the little-endian value of d's bytes there (and, as
\* nothing else changes flash, keeps doing so through address-space writes,
\* region resets and board resets); a load_image of more bytes than flash
\* holds fails and leaves flash unchanged.
C19_FlashOnlyByLoadImage ==
    [][/\ (flash_data' # flash_data) => (call'[1] = "load_image" /\ exc' = "None")
       /\ (call'[1] = "load_image" /\ Len(call'[2]) <= FlashSize) =>
             /\ exc' = "None"
             /\ \A size \in Sizes : \A offset \in 0..(Len(call'[2]) - 1) :
                   (offset % size = 0 /\ offset + size <= Len(call'[2])) =>
                      AddressSpace_read(flash_data', sram_data', periph_bases',
                                        peripherals', FlashBase + offset, size)
                        = [exc |-> "None",
                           value |-> ImageValue(call'[2], offset, size)]
       /\ (call'[1] = "load_image" /\ Len(call'[2]) > FlashSize) =>
             (exc' = "ValueError" /\ flash_data' = flash_data)]_vars

\* the image loaded earlier still reads back word for word after the board
\* has been reset from it, RAM being zero again
C19_Witness ==
    /\ call = <<"board_reset">>
    /\ exc = "None"
    /\ Read(FlashBase, 4).value = Bits(SramBase + 4)
    /\ Read(FlashBase + 4, 4).value = Bits(FlashBase + 9)
    /\ Read(SramBase, 4).value = {}

(***************************************************************************)
(* SpecCpu: registers written at will, then the board reset                *)
(***************************************************************************)

\* an image whose stack pointer is good and whose reset vector is even
ImageEvenVector == ImageWords(Bits(SramBase + 4), Bits(FlashBase + 8))

\* BaseCortexM_CPU.reset_core: every register of the register map is zeroed,
\* XPSR gets the Thumb bit, MSP and SP the first word of flash, PC the second
\* word with bit 0 cleared; nothing is validated
BaseCortexM_CPU_reset_core(flash, r) ==
    LET initial_sp == FlashMemory_read(flash, FlashBase, 4).value
        reset_vector == FlashMemory_read(flash, FlashBase + 4, 4).value
    IN [x \in RegNames |->
          CASE x \in {"R0", "R12", "LR"} -> {}
            [] x = "XPSR" -> XPSR_THUMB_BIT
            [] x \in {"MSP", "SP"} -> initial_sp
            [] x = "PC" -> reset_vector \ {0}]

\* the legacy CPU wrapper is reset over the same flash
ResetCore ==
    /\ regs' = BaseCortexM_CPU_reset_core(flash_data, regs)
    /\ call' = <<"reset_core">>
    /\ exc' = "None"
    /\ UNCHANGED <<envVars, memVars, gpioVars, cycle_count, pending, dbgVars>>

\* the registers a debugger writes before a reset
WrittenRegs == {"R0", "LR", "SP", "PC", "MSP"}

\* the values registers are given before a reset
RegValues == {ValA, {0}}

NextCpu ==
    \/ \E name \in WrittenRegs, v \in RegValues : WriteRegister(1, name, v)
    \/ \E image \in {ImageGood, ImageShort, ImageEvenVector} : LoadImage(image)
    \/ BoardReset
    \/ ResetCore

SpecCpu == Init /\ [][NextCpu]_vars

\* word k of flash, as the address space reads it after the step
FlashWordAfter(k) ==
    AddressSpace_read(flash_data', sram_data', periph_bases', peripherals',
                      FlashBase + 4 * k, 4).value

FlashWord(k) == Read(FlashBase + 4 * k, 4).value

\* the vector table at the start of flash cannot boot the CPU
BadVectorTable ==
    \/ ~contains_value(SramBase, SramSize, FlashWord(0))
    \/ 0 \notin FlashWord(1)

\* C21: a reset of the CPU fails with a runtime error when word 0 of flash
\* (the MSP) is outside RAM or word 1 (the reset vector) has its least
\* significant bit clear, and then MSP, SP and PC keep the values they had
\* before the call.
C21_ResetRejectsBadVectors ==
    [][(call'[1] = "board_reset" /\ BadVectorTable) =>
          /\ exc' = "RuntimeError"
          /\ regs'["MSP"] = regs["MSP"]
          /\ regs'["SP"] = regs["SP"]
          /\ regs'["PC"] = regs["PC"]]_vars

\* a reset has failed on an even reset vector under a good stack pointer,
\* with MSP, SP and PC still holding what had been written to them
C21_Witness ==
    /\ call = <<"board_reset">>
    /\ exc = "RuntimeError"
    /\ FlashWord(0) = Bits(SramBase + 4)
    /\ FlashWord(1) = Bits(FlashBase + 8)
    /\ regs["MSP"] = MaskTo(ValA, 4)
    /\ regs["SP"] = {0}
    /\ regs["PC"] = MaskTo(ValA, 4)

\* C22: after a successful CPU reset, the PC register holds the reset vector
\* with its Thumb bit cleared (reset_vector & 0xFFFFFFFE).
C22_ResetPcThumbCleared ==
    [][(call'[1] \in {"board_reset", "reset_core"} /\ exc' = "None") =>
          regs'["PC"] = FlashWord(1) \ {0}]_vars

(***************************************************************************)
(* Registers and the register file (core/register.py)                      *)
(***************************************************************************)

RegisterKinds == {"simple", "read_only", "write_only"}

\* Register.__init__: value starts at reset_value
Register(kind, reset_value) ==
    [kind |-> kind, value |-> reset_value, reset_value |-> reset_value]

\* read of SimpleRegister and ReadOnlyRegister; WriteOnlyRegister.read
\* returns self.reset_value
Register_read(reg, access_size) ==
    IF reg.kind = "write_only" THEN reg.reset_value
    ELSE SimpleRegister_read(reg.value, access_size)

\* write of SimpleRegister and WriteOnlyRegister; ReadOnlyRegister.write
\* is `pass`
Register_write(reg, access_size, val) ==
    IF reg.kind = "read_only" THEN reg
    ELSE [reg EXCEPT !.value = SimpleRegister_write(reg.value, access_size, val)]

\* SimpleRegister.reset
Register_reset(reg) == [reg EXCEPT !.value = reg.reset_value]

\* variant: a second add at an offset replaces the register
RegisterFile_add_overwrites(rf, offset, reg) ==
    [exc |-> "None", registers |-> [rf EXCEPT ![offset] = <<reg>>]]

\* RegisterFile.add: [exc, registers]
RegisterFile_add(rf, offset, reg) ==
    IF rf[offset] # << >> THEN [exc |-> "ValueError", registers |-> rf]
    ELSE [exc |-> "None", registers |-> [rf EXCEPT ![offset] = <<reg>>]]

\* RegisterFile.read: [exc, value]
RegisterFile_read(rf, offset, access_size, default_reset) ==
    IF validate_size(access_size) # "None" THEN [exc |-> "ValueError", value |-> {}]
    ELSE IF rf[offset] # << >>
    THEN [exc |-> "None", value |-> Register_read(rf[offset][1], access_size)]
    ELSE [exc |-> "None", value |-> MaskTo(default_reset, access_size)]

\* RegisterFile.write: [exc, registers]
RegisterFile_write(rf, offset, access_size, val) ==
    IF validate_size(access_size) # "None" THEN [exc |-> "ValueError", registers |-> rf]
    ELSE IF rf[offset] # << >>
    THEN [exc |-> "None",
          registers |-> [rf EXCEPT ![offset] = <<Register_write(rf[offset][1], access_size, val)>>]]
    ELSE [exc |-> "None", registers |-> rf]

\* RegisterFile.reset
RegisterFile_reset(rf) ==
    [o \in DOMAIN rf |-> IF rf[o] # << >> THEN <<Register_reset(rf[o][1])>> ELSE << >>]

regRest == <<protoVars, subVars, irqVars, engine_flash, engine_sram, pc_read, memVars, gpioVars,
            boardVars, dbgVars>>

\* rf.add(Kind(offset, 4, reset_value))
RfAdd(offset, kind, reset_value) ==
    LET r == RegisterFile_add(registers, offset, Register(kind, reset_value))
    IN /\ registers' = r.registers
       /\ call' = <<"rf_add", offset, kind, reset_value>>
       /\ exc' = r.exc
       /\ UNCHANGED regRest

\* rf.read(offset, access_size, default_reset)
RfRead(offset, access_size, default_reset) ==
    /\ call' = <<"rf_read", offset, access_size, default_reset>>
    /\ exc' = RegisterFile_read(registers, offset, access_size, default_reset).exc
    /\ UNCHANGED <<registers, regRest>>

\* rf.write(offset, access_size, val)
RfWrite(offset, access_size, val) ==
    LET r == RegisterFile_write(registers, offset, access_size, val)
    IN /\ registers' = r.registers
       /\ call' = <<"rf_write", offset, access_size, val>>
       /\ exc' = r.exc
       /\ UNCHANGED regRest

\* rf.reset()
RfReset ==
    /\ registers' = RegisterFile_reset(registers)
    /\ call' = <<"rf_reset">>
    /\ exc' = "None"
    /\ UNCHANGED regRest

\* reg.write(access_size, val) on the register object at `offset`
RegWrite(offset, access_size, val) ==
    /\ registers[offset] # << >>
    /\ registers' = [registers EXCEPT
                       ![offset] = <<Register_write(registers[offset][1], access_size, val)>>]
    /\ call' = <<"reg_write", offset, access_size, val>>
    /\ exc' = "None"
    /\ UNCHANGED regRest

\* reg.reset() on the register object at `offset`
RegReset(offset) ==
    /\ registers[offset] # << >>
    /\ registers' = [registers EXCEPT ![offset] = <<Register_reset(registers[offset][1])>>]
    /\ call' = <<"reg_reset", offset>>
    /\ exc' = "None"
    /\ UNCHANGED regRest

(***************************************************************************)
(* SpecRegs: registers of the three kinds in one register file             *)
(***************************************************************************)

\* reset values: zero and a value with a bit in each byte and one above 32 bits
ResetValues == {{}, {3, 12, 17, 30, 33}}

\* written values: inside one byte, across bytes, and wider than any access
WrittenValues == {{0, 7}, {1, 9, 23, 31, 32}}

RegSizes == {0, 1, 3, 4}

\* the registers added: every kind at offset 0, a read-only one at offset 4
RegAdds ==
    {<<0, k, v>> : k \in RegisterKinds, v \in ResetValues}
    \cup {<<4, "read_only", {3, 12, 17, 30, 33}>>}

NextRegs ==
    \/ \E a \in RegAdds : RfAdd(a[1], a[2], a[3])
    \/ \E o \in RegOffsets, n \in RegSizes, v \in WrittenValues : RfWrite(o, n, v)
    \/ \E o \in RegOffsets, n \in RegSizes : RfRead(o, n, {1, 9, 23, 31, 32})
    \/ RfReset
    \/ \E n \in Sizes, v \in WrittenValues : RegWrite(0, n, v)
    \/ \E o \in RegOffsets : RegReset(o)

SpecRegs == Init /\ [][NextRegs]_vars

\* the register object at offset o is a SimpleRegister
IsSimple(o) == registers[o] # << >> /\ registers[o][1].kind = "simple"

\* C23: a write(access_size, value) to a SimpleRegister replaces exactly the
\* low access_size bytes of the stored value with value masked to that size
\* and keeps the higher bytes; the read(access_size) that follows returns
\* value masked to the size; reset() restores the reset value.
C23_SimpleRegisterStorage ==
    [][/\ (call'[1] = "reg_write" /\ IsSimple(call'[2])) =>
            LET o == call'[2]
                n == call'[3]
                before == registers[o][1].value
                after == registers'[o][1].value
            IN /\ \A b \in 0..40 :
                    b \in after <=> IF b < 8 * n THEN b \in call'[4] ELSE b \in before
               /\ Register_read(registers'[o][1], n) = {b \in call'[4] : b < 8 * n}
               /\ registers'[o][1].reset_value = registers[o][1].reset_value
       /\ (call'[1] = "reg_reset" /\ IsSimple(call'[2])) =>
            registers'[call'[2]][1].value = registers[call'[2]][1].reset_value]_vars

\* a one-byte write has landed on a SimpleRegister holding bits in its higher
\* bytes, which are still there
C23_Witness ==
    /\ call = <<"reg_write", 0, 1, {0, 7}>>
    /\ IsSimple(0)
    /\ registers[0][1].value = {0, 7, 12, 17, 30, 33}

\* the value is below 2^(8 * access_size)
BelowSize(value, access_size) == \A b \in value : b < 8 * access_size

\* the offsets read on the STM32 port: IDR, ODR, BSRR and an unregistered one
Stm32ReadOffsets == {REG_IDR, REG_ODR, REG_BSRR, 0}

\* C24: for every register kind reachable over the bus (simple, read-only,
\* write-only, the custom IDR, BSRR, the masked DATA window, MIS), a read
\* with access size s returns a value below 2^(8s).
C24_ReadBelowAccessSize ==
    \A s \in Sizes :
        /\ \A o \in RegOffsets :
              BelowSize(RegisterFile_read(registers, o, s, {}).value, s)
        /\ \A o \in Stm32ReadOffsets :
              BelowSize(STM32GPIO_read(odr, external_inputs, o, s).value, s)
        /\ \A o \in Tm4cOffsets \cup {MisOffset} :
              BelowSize(TM4C123GPIO_read(tm4c_data, DataOffset + o, s).value, s)

\* C25: in a register file, an add at an occupied offset is rejected and the
\* original register stays; a read of an unregistered offset returns the
\* default masked to the access size; a write to an unregistered offset
\* changes no register; an access size other than 1, 2 or 4 is rejected for
\* reads and writes, at registered and unregistered offsets, and no register
\* changes.
C25_RegisterFile ==
    [][/\ (call'[1] = "rf_add" /\ registers[call'[2]] # << >>) =>
            exc' = "ValueError" /\ registers' = registers
       /\ (call'[1] = "rf_add" /\ registers[call'[2]] = << >>) =>
            /\ exc' = "None"
            /\ registers'[call'[2]] =
                  <<[kind |-> call'[3], value |-> call'[4], reset_value |-> call'[4]]>>
       /\ (call'[1] \in {"rf_read", "rf_write"} /\ call'[3] \notin {1, 2, 4}) =>
            exc' = "ValueError" /\ registers' = registers
       /\ (call'[1] = "rf_read" /\ call'[3] \in {1, 2, 4}
             /\ registers[call'[2]] = << >>) =>
            /\ exc' = "None"
            /\ registers' = registers
            /\ RegisterFile_read(registers', call'[2], call'[3], call'[4]).value
                  = {b \in call'[4] : b < 8 * call'[3]}
       /\ (call'[1] = "rf_write" /\ call'[3] \in {1, 2, 4}
             /\ registers[call'[2]] = << >>) =>
            exc' = "None" /\ registers' = registers]_vars

\* a second add at offset 0 has been rejected, and the simple register that
\* was there first still holds what was written to it
C25_Witness ==
    /\ call = <<"rf_add", 0, "write_only", {}>>
    /\ exc = "ValueError"
    /\ IsSimple(0)
    /\ registers[0][1].value = {0, 7, 12, 17, 30, 33}
    /\ registers[4] # << >>

\* C26: the configuration registers of the STM32 GPIO port (MODER, OTYPER,
\* OSPEEDR, PUPDR, LCKR, AFRL, AFRH) are simple storage: a 32-bit read after
\* a 32-bit write of v returns v, and reset restores the reset value.
C26_ConfigRegistersStore ==
    [][(/\ call'[1] = "stm32_write"
        /\ call'[2] \in Stm32ConfigOffsets
        /\ call'[3] = 4)
       => /\ exc' = "None"
          /\ STM32GPIO_read(odr', external_inputs', call'[2], 4).value = call'[4]]_vars

\* what a read of `offset` returns after the step
Stm32ReadAfter(offset, size) == STM32GPIO_read(odr', external_inputs', offset, size).value

InitIrq == InitRest /\ irq_clock \in BOOLEAN /\ cpu_attached = FALSE

irqRest == <<protoVars, subVars, registers, engine_sram, pc_read, engine_flash, memVars, gpioVars,
            regs, dbgVars>>

\* ctrl.attach_cpu(cpu)
AttachCpu ==
    /\ cpu_attached' = TRUE
    /\ call' = <<"attach_cpu">>
    /\ exc' = "None"
    /\ UNCHANGED <<irqRest, cycle_count, pending, cpu_pending, irq_clock>>

\* ctrl.reset()
IrqReset ==
    /\ pending' = InterruptController_reset(pending)
    /\ call' = <<"irq_reset">>
    /\ exc' = "None"
    /\ UNCHANGED <<irqRest, cycle_count, cpu_pending, irq_clock, cpu_attached>>

\* the sources and the vectors of the events, None among the vectors
IrqSources == {"gpio", "timer"}
IrqVectors == {<< >>, <<5>>}

NextIrq ==
    \/ \E source \in IrqSources, vector \in IrqVectors :
          Len(pending) < MaxDelivered /\ Notify(source, vector)
    \/ AttachCpu
    \/ IrqReset
    \/ \E cycles \in {1, MaxTick} : ClockTick(cycles)

SpecIrq == InitIrq /\ [][NextIrq]_vars

\* C30: notify(source, vector) creates an event stamped with the clock's
\* cycle count (no timestamp when the controller has no clock), appends it
\* to the pending queue and delivers it exactly once, synchronously, to the
\* attached CPU; events reach the CPU in notify order; the pending queue is
\* emptied only by reset().
C30_NotifyDelivers ==
    [][LET event == [source |-> call'[2], vector |-> call'[3],
                     timestamp |-> IF irq_clock THEN <<cycle_count>> ELSE << >>]
       IN /\ call'[1] = "notify" =>
               /\ Len(pending') = Len(pending) + 1
               /\ pending'[Len(pending')] = event
               /\ \A k \in 1..Len(pending) : pending'[k] = pending[k]
               /\ IF cpu_attached
                  THEN /\ Len(cpu_pending') = Len(cpu_pending) + 1
                       /\ cpu_pending'[Len(cpu_pending')] = event
                       /\ \A k \in 1..Len(cpu_pending) : cpu_pending'[k] = cpu_pending[k]
                  ELSE cpu_pending' = cpu_pending
          /\ call'[1] # "notify" =>
               /\ cpu_pending' = cpu_pending
               /\ pending' # pending => (call'[1] = "irq_reset" /\ pending' = << >>)]_vars

\* two events notified at different cycle counts have reached the CPU in
\* that order, with a reset of the controller in between
C30_Witness ==
    /\ call[1] = "notify"
    /\ Len(cpu_pending) = 2
    /\ cpu_pending[1].timestamp = <<1>>
    /\ cpu_pending[2].timestamp = <<2>>
    /\ cpu_pending[1].source = "timer"
    /\ cpu_pending[2].vector = << >>
    /\ pending = <<cpu_pending[2]>>

(***************************************************************************)
(* Memory access of the debug session (debug/session.py 53-85) over the    *)
(* engine's own copy of flash and RAM (core/cpu.py 76-82)                  *)
(***************************************************************************)

\* UnicornEngine.write_memory: [exc, flash, sram]; the engine has flash and
\* RAM mapped (builders.py 70-71), a write outside them is an engine error
UnicornEngine_write_memory(eflash, esram, base, data) ==
    LET put(mem, offset) ==
            [k \in DOMAIN mem |->
                IF offset <= k /\ k < offset + Len(data) THEN data[k - offset + 1]
                ELSE mem[k]]
    IN IF contains_range(FlashBase, FlashSize, base, Len(data))
       THEN [exc |-> "None", flash |-> put(eflash, base - FlashBase), sram |-> esram]
       ELSE IF contains_range(SramBase, SramSize, base, Len(data))
       THEN [exc |-> "None", flash |-> eflash, sram |-> put(esram, base - SramBase)]
       ELSE [exc |-> "UcError", flash |-> eflash, sram |-> esram]

\* UnicornEngine.read_memory: [exc, data]
UnicornEngine_read_memory(eflash, esram, base, size) ==
    IF contains_range(FlashBase, FlashSize, base, size)
    THEN [exc |-> "None", data |-> [k \in 1..size |-> eflash[base - FlashBase + k - 1]]]
    ELSE IF contains_range(SramBase, SramSize, base, size)
    THEN [exc |-> "None", data |-> [k \in 1..size |-> esram[base - SramBase + k - 1]]]
    ELSE [exc |-> "UcError", data |-> << >>]

\* for offset, value in enumerate(data): sram.write(address + offset, 1, value),
\* from the k-th byte on: [exc, data]
RECURSIVE sram_write_each(_, _, _, _)
sram_write_each(sram, address, data, k) ==
    IF k > Len(data) THEN [exc |-> "None", data |-> sram]
    ELSE CHOOSE result \in
            {IF w.exc # "None" THEN w
             ELSE sram_write_each(w.data, address, data, k + 1) :
                w \in {RamMemory_write(sram, address + k - 1, 1, data[k])}} : TRUE

\* for offset, value in enumerate(data): address_space.write(address + offset,
\* 1, value), from the k-th byte on: [exc, flash, sram, periphs]
RECURSIVE space_write_each(_, _, _, _, _, _, _)
space_write_each(flash, sram, bases, periphs, address, data, k) ==
    IF k > Len(data)
    THEN [exc |-> "None", flash |-> flash, sram |-> sram, periphs |-> periphs]
    ELSE CHOOSE result \in
            {IF w.exc # "None" THEN w
             ELSE space_write_each(w.flash, w.sram, bases, w.periphs, address, data, k + 1) :
                w \in {AddressSpace_write(flash, sram, bases, periphs,
                                          address + k - 1, 1, data[k])}} : TRUE

\* bytes(address_space.read(address + offset, 1) for offset in range(size)),
\* from the k-th byte on: [exc, data]; a value above 255 is a ValueError of
\* bytes()
RECURSIVE space_read_each(_, _, _, _, _, _, _)
space_read_each(flash, sram, bases, periphs, address, size, k) ==
    IF k > size THEN [exc |-> "None", data |-> << >>]
    ELSE CHOOSE result \in
            {IF r.exc # "None" THEN [exc |-> r.exc, data |-> << >>]
             ELSE CHOOSE bytes \in
                     {IF rest.exc # "None" THEN rest
                      ELSE IF \E b \in r.value : b >= 8
                      THEN [exc |-> "ValueError", data |-> << >>]
                      ELSE [exc |-> "None", data |-> <<r.value>> \o rest.data] :
                         rest \in {space_read_each(flash, sram, bases, periphs,
                                                   address, size, k + 1)}} : TRUE :
                r \in {AddressSpace_read(flash, sram, bases, periphs,
                                         address + k - 1, 1)}} : TRUE

\* the MMIO branch and the fallback of write_memory: every byte goes through
\* address_space.write, the engine is not written
write_memory_via_space(flash, sram, bases, periphs, eflash, esram, address, data) ==
    CHOOSE result \in
        {[exc |-> w.exc, flash |-> w.flash, sram |-> w.sram, periphs |-> w.periphs,
          engine_flash |-> eflash, engine_sram |-> esram] :
            w \in {space_write_each(flash, sram, bases, periphs, address, data, 1)}} : TRUE

\* the RAM branch of write_memory: every byte goes through sram.write, then
\* the whole of data through engine.write_memory
write_memory_to_sram(flash, sram, periphs, eflash, esram, address, data) ==
    CHOOSE result \in
        {IF rw.exc # "None"
         THEN [exc |-> rw.exc, flash |-> flash, sram |-> rw.data, periphs |-> periphs,
               engine_flash |-> eflash, engine_sram |-> esram]
         ELSE CHOOSE written \in
                 {[exc |-> ew.exc, flash |-> flash, sram |-> rw.data, periphs |-> periphs,
                   engine_flash |-> ew.flash, engine_sram |-> ew.sram] :
                     ew \in {UnicornEngine_write_memory(eflash, esram, address, data)}} : TRUE :
            rw \in {sram_write_each(sram, address, data, 1)}} : TRUE

\* DebugSession.write_memory: [exc, flash, sram, periphs, engine_flash,
\* engine_sram]; FlashMemory has no `program` method, so the flash branch
\* raises AttributeError
DebugSession_write_memory(flash, sram, bases, periphs, eflash, esram, address, data) ==
    IF contains(PeriphBase, PeriphSize, address)
    THEN write_memory_via_space(flash, sram, bases, periphs, eflash, esram, address, data)
    ELSE IF contains(FlashBase, FlashSize, address)
    THEN [exc |-> "AttributeError", flash |-> flash, sram |-> sram, periphs |-> periphs,
          engine_flash |-> eflash, engine_sram |-> esram]
    ELSE IF contains(SramBase, SramSize, address)
    THEN write_memory_to_sram(flash, sram, periphs, eflash, esram, address, data)
    ELSE write_memory_via_space(flash, sram, bases, periphs, eflash, esram, address, data)

\* DebugSession.read_memory: [exc, data]
DebugSession_read_memory(flash, sram, bases, periphs, eflash, esram, address, size) ==
    IF contains(PeriphBase, PeriphSize, address)
    THEN space_read_each(flash, sram, bases, periphs, address, size, 1)
    ELSE UnicornEngine_read_memory(eflash, esram, address, size)

\* `write_mem`: write_memory(address, data) under the lock
WriteMem(c, address, data) ==
    \E r \in {DebugSession_write_memory(flash_data, sram_data, periph_bases, peripherals,
                                        engine_flash, engine_sram, address, data)} :
       /\ at[c] = "idle"
       /\ RLock_acquire(lock, c)
       /\ flash_data' = r.flash
       /\ sram_data' = r.sram
       /\ peripherals' = r.periphs
       /\ engine_flash' = r.engine_flash
       /\ engine_sram' = r.engine_sram
       /\ call' = <<"write_mem", c, address, data>>
       /\ exc' = r.exc
       /\ UNCHANGED <<protoVars, subVars, registers, irqVars, pc_read, periph_bases, gpioVars,
                      boardVars, dbgVars>>

\* `read_mem`: read_memory(address, size) under the lock
ReadMem(c, address, size) ==
    /\ at[c] = "idle"
    /\ RLock_acquire(lock, c)
    /\ call' = <<"read_mem", c, address, size>>
    /\ exc' = DebugSession_read_memory(flash_data, sram_data, periph_bases, peripherals,
                                       engine_flash, engine_sram, address, size).exc
    /\ UNCHANGED <<envVars, memVars, gpioVars, boardVars, dbgVars>>

(***************************************************************************)
(* SpecDbgMem: memory written and read through the debug session, and the  *)
(* board reset, with no instruction executed                               *)
(***************************************************************************)

\* targets in flash, in RAM (at its start and near its end), on the MMIO
\* window and outside every region
MemAddrs == {FlashBase + 8, SramBase, SramBase + SramSize - 2, PeriphBase, 3}

\* the data written: one byte and three bytes
MemData == {<<{0, 7}>>, <<{1}, {2, 3}, {4}>>}

NextDbgMem ==
    \/ \E a \in MemAddrs, data \in MemData : WriteMem(1, a, data)
    \/ \E a \in MemAddrs, n \in {1, 3} : ReadMem(1, a, n)
    \/ DebugReset(1)

SpecDbgMem == InitDebug /\ [][NextDbgMem]_vars

\* what read_mem(address, size) returns after the step
ReadMemAfter(address, size) ==
    DebugSession_read_memory(flash_data', sram_data', periph_bases', peripherals',
                             engine_flash', engine_sram', address, size)

\* the bytes the address space holds at address .. address + n - 1 after the step
SpaceBytesAfter(address, n) ==
    [k \in 1..n |->
        AddressSpace_read(flash_data', sram_data', periph_bases', peripherals',
                          address + k - 1, 1).value]

\* C28: for a flash or RAM target, write_mem(address, data) followed by
\* read_mem(address, len(data)) returns data, and the address space's flash
\* or RAM holds the same bytes.
C28_WriteMemReadBack ==
    [][(/\ call'[1] = "write_mem"
        /\ \/ contains_range(FlashBase, FlashSize, call'[3], Len(call'[4]))
           \/ contains_range(SramBase, SramSize, call'[3], Len(call'[4])))
       => /\ exc' = "None"
          /\ ReadMemAfter(call'[3], Len(call'[4])).exc = "None"
          /\ ReadMemAfter(call'[3], Len(call'[4])).data = call'[4]
          /\ SpaceBytesAfter(call'[3], Len(call'[4])) = call'[4]]_vars

\* the round trip of write_mem and read_mem holds for the targets in RAM
RamWriteMemReadBack ==
    [][(/\ call'[1] = "write_mem"
        /\ contains_range(SramBase, SramSize, call'[3], Len(call'[4])))
       => /\ exc' = "None"
          /\ ReadMemAfter(call'[3], Len(call'[4])).data = call'[4]
          /\ SpaceBytesAfter(call'[3], Len(call'[4])) = call'[4]]_vars

\* C29: after any sequence of write_mem and reset with no instruction
\* executed, the engine's copy of RAM, which read_mem returns, equals the
\* address space's RAM; after a reset, read_mem over any RAM range returns
\* zero bytes.
C29_EngineRamInSync ==
    [][(call'[1] \in {"write_mem", "debug_reset"}) =>
          /\ \A a \in SramBase..(SramBase + SramSize - 1) :
                ReadMemAfter(a, 1).data = SpaceBytesAfter(a, 1)
          /\ call'[1] = "debug_reset" =>
                \A a \in SramBase..(SramBase + SramSize - 1) :
                   ReadMemAfter(a, 1).data = <<{}>>]_vars

(***************************************************************************)
(* SpecLive: two connections stepping and running without a step limit,    *)
(* under a fair board mutex (debug/session.py, debug/server.py)            *)
(***************************************************************************)

\* the instruction count is followed up to the bound only
Capped(n) == IF n > MaxExecuted THEN MaxExecuted ELSE n

\* variant: leaving `with self._lock` keeps the mutex with its owner
RLock_release_kept(owner, t) == owner

\* threading.RLock: leaving the outermost `with self._lock` frees the mutex
RLock_release(owner, t) == 0

\* step: the locked body runs, the mutex is released on return
LiveStepBody(c, outcome) ==
    \E r \in {DebugSession_step_body(breakpoints, regs, Capped(executed), watch_hit,
                                     outcome)} :
       /\ at[c] = "step_locked"
       /\ regs' = r.regs
       /\ executed' = Capped(r.executed)
       /\ watch_hit' = r.watch_hit
       /\ stop' = StopReason("step", c, r.reason, r.address, r.detail)
       /\ lock' = RLock_release(lock, c)
       /\ at' = [at EXCEPT ![c] = "idle"]
       /\ UNCHANGED <<envVars, boardRest, halt_requested, breakpoints, steps, max_steps>>

\* run: one pass through `with self._lock` of the loop; the mutex is released
\* at the end of the block, whether the pass returns or goes round the loop.
\* Without a limit `steps` is compared with nothing and is followed up to the
\* bound only.
LiveRunBody(c, outcome) ==
    \E r \in {DebugSession_run_body(breakpoints, regs, Capped(executed), watch_hit,
                                    steps[c], max_steps[c], outcome)} :
       /\ at[c] = "run_locked"
       /\ regs' = r.regs
       /\ executed' = Capped(r.executed)
       /\ watch_hit' = r.watch_hit
       /\ lock' = RLock_release(lock, c)
       /\ IF r.returned
          THEN /\ stop' = StopReason("run", c, r.reason, r.address, r.detail)
               /\ at' = [at EXCEPT ![c] = "idle"]
               /\ steps' = [steps EXCEPT ![c] = 0]
               /\ max_steps' = [max_steps EXCEPT ![c] = << >>]
          ELSE /\ at' = [at EXCEPT ![c] = "run_check"]
               /\ steps' = [steps EXCEPT ![c] =
                               IF max_steps[c] = << >> THEN Capped(r.steps) ELSE r.steps]
               /\ UNCHANGED <<stop, max_steps>>
       /\ UNCHANGED <<envVars, boardRest, halt_requested, breakpoints>>

\* the max_steps arguments of run here: none, and one instruction
LiveLimits == {<< >>, <<1>>}

\* what the engine does with an instruction here: it raises, or lands on
\* the next instruction
LiveOutcomes == {o \in EngineOutcomes : ~o.hit /\ o.pc # Bits(FlashBase + 8)}

NextLive ==
    \E c \in Conns :
        \/ Halt(c)
        \/ StepStart(c)
        \/ StepAcquire(c)
        \/ \E o \in LiveOutcomes : LiveStepBody(c, o)
        \/ \E limit \in LiveLimits : RunStart(c, limit)
        \/ RunCheck(c)
        \/ RunHalt(c)
        \/ RunAcquire(c)
        \/ \E o \in LiveOutcomes : LiveRunBody(c, o)

\* a handler thread that can go on does go on (the threads of
\* ThreadingTCPServer are scheduled by the operating system), and a thread
\* waiting for the mutex gets it if the mutex is free again and again
Fairness ==
    \A c \in Conns :
        /\ WF_vars(RunCheck(c))
        /\ WF_vars(\E o \in LiveOutcomes : LiveStepBody(c, o))
        /\ WF_vars(\E o \in LiveOutcomes : LiveRunBody(c, o))
        /\ SF_vars(StepAcquire(c))
        /\ SF_vars(RunAcquire(c))
        /\ SF_vars(RunHalt(c))

SpecLive == InitDebug /\ [][NextLive]_vars /\ Fairness

\* connection c has issued a command and waits for the board mutex
WaitsForMutex(c) == at[c] \in {"step_wait", "run_wait", "run_halt_wait"}

\* C31: while a connection executes a run without a step limit, a command
\* issued on another connection is eventually executed: the run loop frees
\* the board mutex between two instructions, so with a fair mutex no command
\* waits for it forever.
C31_NoCommandStarves ==
    \A c \in Conns : WaitsForMutex(c) ~> ~WaitsForMutex(c)

\* connection 2 is inside its step while connection 1 stands between two
\* instructions of a run without a limit
C31_Witness ==
    /\ at[1] \in {"run_check", "run_wait"}
    /\ max_steps[1] = << >>
    /\ steps[1] >= 1
    /\ at[2] = "step_locked"
    /\ lock = 2

(***************************************************************************)
(* SpecRace: step and run taken statement by statement inside              *)
(* `with self._lock`, against connections that set and clear breakpoints   *)
(* and rewrite the PC (debug/session.py)                                   *)
(***************************************************************************)

\* DebugSession.step after the breakpoint test on `pc` has failed:
\* cpu.step() and the choice of the stop reason
DebugSession_step_after_test(bps, pc, r, n, w, outcome) ==
    LET one == CortexM_step(r, n, w, outcome)
        after == [regs |-> one.regs, executed |-> one.executed, watch_hit |-> one.watch_hit]
        pc_after == one.regs["PC"]
    IN IF one.exc # "None"
       THEN [reason |-> "fault", address |-> pc, detail |-> one.exc] @@ after
       ELSE IF one.watch_hit # "None"
       THEN [reason |-> "watchpoint", detail |-> "None", address |-> WatchAddr,
             regs |-> one.regs, executed |-> one.executed, watch_hit |-> "None"]
       ELSE IF is_breakpoint(bps, pc_after)
       THEN [reason |-> "breakpoint", detail |-> "None", address |-> pc_after] @@ after
       ELSE [reason |-> "step", detail |-> "None", address |-> pc_after] @@ after

\* DebugSession.run, the rest of one pass after the breakpoint test on `pc`
\* has failed
DebugSession_run_after_test(pc, r, n, w, count, limit, outcome) ==
    LET one == CortexM_step(r, n, w, outcome)
        after == [regs |-> one.regs, executed |-> one.executed, watch_hit |-> one.watch_hit]
    IN IF one.exc # "None"
       THEN [returned |-> TRUE, reason |-> "fault", address |-> pc,
             detail |-> one.exc, steps |-> count] @@ after
       ELSE IF one.watch_hit # "None"
       THEN [returned |-> TRUE, reason |-> "watchpoint", detail |-> "None",
             address |-> WatchAddr, steps |-> count,
             regs |-> one.regs, executed |-> one.executed, watch_hit |-> "None"]
       ELSE IF limit # << >> /\ count + 1 >= limit[1]
       THEN [returned |-> TRUE, reason |-> "limit", detail |-> "None",
             address |-> one.regs["PC"], steps |-> count + 1] @@ after
       ELSE [returned |-> FALSE, reason |-> "None", detail |-> "None", address |-> {},
             steps |-> count + 1] @@ after

\* what the statements inside the lock leave alone
raceRest == <<protoVars, subVars, registers, irqVars, engine_sram, engine_flash,
              boardRest, halt_requested>>

\* step: pc = self.cpu.get_register(15)
StepReadPc(c) ==
    /\ at[c] = "step_locked"
    /\ pc_read' = [pc_read EXCEPT ![c] = regs["PC"]]
    /\ at' = [at EXCEPT ![c] = "step_test"]
    /\ UNCHANGED <<raceRest, regs, lock, breakpoints, watch_hit, executed, steps,
                   max_steps, stop>>

\* step: if self.cpu.is_breakpoint(pc): return StopReason("breakpoint", pc)
StepTest(c) ==
    /\ at[c] = "step_test"
    /\ IF is_breakpoint(breakpoints, pc_read[c])
       THEN /\ stop' = StopReason("step", c, "breakpoint", pc_read[c], "None")
            /\ lock' = RLock_release(lock, c)
            /\ at' = [at EXCEPT ![c] = "idle"]
            /\ pc_read' = [pc_read EXCEPT ![c] = {}]
       ELSE /\ at' = [at EXCEPT ![c] = "step_exec"]
            /\ UNCHANGED <<stop, lock, pc_read>>
    /\ UNCHANGED <<raceRest, regs, breakpoints, watch_hit, executed, steps, max_steps>>

\* step: self.cpu.step() and the return, which ends the life of `pc`
StepExec(c, outcome) ==
    \E r \in {DebugSession_step_after_test(breakpoints, pc_read[c], regs, executed,
                                           watch_hit, outcome)} :
       /\ at[c] = "step_exec"
       /\ r.executed <= MaxExecuted
       /\ regs' = r.regs
       /\ executed' = r.executed
       /\ watch_hit' = r.watch_hit
       /\ stop' = StopReason("step", c, r.reason, r.address, r.detail)
       /\ lock' = RLock_release(lock, c)
       /\ at' = [at EXCEPT ![c] = "idle"]
       /\ pc_read' = [pc_read EXCEPT ![c] = {}]
       /\ UNCHANGED <<raceRest, breakpoints, steps, max_steps>>

\* run: pc = self.cpu.get_register(15)
RunReadPc(c) ==
    /\ at[c] = "run_locked"
    /\ pc_read' = [pc_read EXCEPT ![c] = regs["PC"]]
    /\ at' = [at EXCEPT ![c] = "run_test"]
    /\ UNCHANGED <<raceRest, regs, lock, breakpoints, watch_hit, executed, steps,
                   max_steps, stop>>

\* run: if self.cpu.is_breakpoint(pc): return StopReason("breakpoint", pc)
RunTest(c) ==
    /\ at[c] = "run_test"
    /\ IF is_breakpoint(breakpoints, pc_read[c])
       THEN /\ stop' = StopReason("run", c, "breakpoint", pc_read[c], "None")
            /\ lock' = RLock_release(lock, c)
            /\ at' = [at EXCEPT ![c] = "idle"]
            /\ steps' = [steps EXCEPT ![c] = 0]
            /\ max_steps' = [max_steps EXCEPT ![c] = << >>]
            /\ pc_read' = [pc_read EXCEPT ![c] = {}]
       ELSE /\ at' = [at EXCEPT ![c] = "run_exec"]
            /\ UNCHANGED <<stop, lock, steps, max_steps, pc_read>>
    /\ UNCHANGED <<raceRest, regs, breakpoints, watch_hit, executed>>

\* run: self.cpu.step() and the rest of the pass
RunExec(c, outcome) ==
    \E r \in {DebugSession_run_after_test(pc_read[c], regs, executed, watch_hit,
                                          steps[c], max_steps[c], outcome)} :
       /\ at[c] = "run_exec"
       /\ r.executed <= MaxExecuted
       /\ regs' = r.regs
       /\ executed' = r.executed
       /\ watch_hit' = r.watch_hit
       /\ lock' = RLock_release(lock, c)
       /\ IF r.returned
          THEN /\ stop' = StopReason("run", c, r.reason, r.address, r.detail)
               /\ at' = [at EXCEPT ![c] = "idle"]
               /\ steps' = [steps EXCEPT ![c] = 0]
               /\ max_steps' = [max_steps EXCEPT ![c] = << >>]
          ELSE /\ at' = [at EXCEPT ![c] = "run_check"]
               /\ steps' = [steps EXCEPT ![c] = r.steps]
               /\ UNCHANGED <<stop, max_steps>>
       /\ pc_read' = [pc_read EXCEPT ![c] = {}]
       /\ UNCHANGED <<raceRest, breakpoints>>

\* the addresses breakpoints are put on and the PC is rewritten to
RaceAddrs == CodeAddrs

\* what the engine does with an instruction here: it lands on a code address
RaceOutcomes == {o \in EngineOutcomes : ~o.fault /\ ~o.hit}

NextRace ==
    \E c \in Conns :
        \/ \E a \in RaceAddrs : SetBreakpoint(c, a)
        \/ \E a \in RaceAddrs : ClearBreakpoint(c, a)
        \/ \E a \in RaceAddrs : WriteRegister(c, "PC", a)
        \/ StepStart(c)
        \/ StepAcquire(c)
        \/ StepReadPc(c)
        \/ StepTest(c)
        \/ \E o \in RaceOutcomes : StepExec(c, o)
        \/ RunStart(c, << >>)
        \/ RunCheck(c)
        \/ RunAcquire(c)
        \/ RunReadPc(c)
        \/ RunTest(c)
        \/ \E o \in RaceOutcomes : RunExec(c, o)

SpecRace == InitDebug /\ [][NextRace]_vars

\* the engine executes an instruction in this step
Executes == executed' = executed + 1

\* C32: step and run never execute the instruction at an address that is in
\* the breakpoint set when the instruction is issued, whatever other
\* connections do to the breakpoint set and the PC: the PC that was read and
\* tested is still the engine's PC, and the set is the one it was tested
\* against.
C32_NoExecuteOnBreakpoint ==
    [][Executes =>
          /\ ~is_breakpoint(breakpoints, regs["PC"])
          /\ \E c \in Conns : at[c] \in {"step_exec", "run_exec"}
                                /\ pc_read[c] = regs["PC"]]_vars

\* connection 1 has passed the breakpoint test of a step and is about to
\* execute, after connection 2 rewrote the PC and while a breakpoint is set
\* on the other code address; connection 2 has issued a step of its own
C32_Witness ==
    /\ at[1] = "step_exec"
    /\ lock = 1
    /\ at[2] = "step_wait"
    /\ call = <<"write_reg", 2, "PC", Bits(FlashBase + 10)>>
    /\ breakpoints = {Bits(FlashBase + 8)}
    /\ executed >= 1

(***************************************************************************)
(* The stop reason of a step that goes past the breakpoint test            *)
(***************************************************************************)

\* connection c returns from the locked part of step in this step, having
\* called cpu.step()
StepPastTest(c) ==
    /\ at[c] = "step_locked"
    /\ at'[c] = "idle"
    /\ ~is_breakpoint(breakpoints, regs["PC"])

Overlaps(base, size, b) == base < MappingEnd(b) /\ b < base + size

\* C34: register_peripheral(base, size, p) is accepted exactly when size > 0,
\* [base, base + size) lies inside the MMIO window and has no address in
\* common with any installed mapping; an accepted call installs that one
\* mapping, a rejected call raises and leaves the mappings as they were.
C34_RegisterAcceptedExactly ==
    [][(call'[1] = "register_peripheral") =>
          LET base == call'[2]
              size == call'[3]
              fits == /\ size > 0
                      /\ PeriphBase <= base
                      /\ base + size <= PeriphBase + PeriphSize
                      /\ \A b \in DOMAIN peripherals : ~Overlaps(base, size, b)
          IN /\ (exc' = "None") <=> fits
             /\ fits =>
                   /\ DOMAIN peripherals' = DOMAIN peripherals \cup {base}
                   /\ peripherals'[base].size = size
                   /\ \A b \in DOMAIN peripherals : peripherals'[b] = peripherals[b]
             /\ ~fits =>
                   /\ exc' \in {"ValueError", "MemoryBoundsError"}
                   /\ peripherals' = peripherals
                   /\ periph_bases' = periph_bases]_vars

\* the last call was accepted and its mapping stands between two mappings
\* installed before it, touching both
C34_Witness ==
    /\ Len(periph_bases) = 3
    /\ call[1] = "register_peripheral"
    /\ exc = "None"
    /\ call[2] = periph_bases[2]
    /\ MappingEnd(periph_bases[1]) = call[2]
    /\ call[2] + call[3] = periph_bases[3]

(***************************************************************************)
(* SpecMmio: reads and writes of the MMIO window over several mappings     *)
(***************************************************************************)

\* the mappings registered here: one and two bytes long
MmioBases == {PeriphBase, PeriphBase + 1, PeriphBase + 3, PeriphBase + 4}
MmioSizes == {1, 2}

\* the addresses accessed: the window, the byte after it, and an address in
\* no region
MmioAddrs == (PeriphBase..(PeriphBase + PeriphSize)) \cup {3}

NextMmio ==
    \/ \E base \in MmioBases, size \in MmioSizes : RegisterPeripheral(base, size)
    \/ \E a \in MmioAddrs : Write(a, 1, ValA)
    \/ Write(PeriphBase + 4, 4, {1})
    \/ \E a \in MmioAddrs : ReadAt(a, 1)
    \/ ReadAt(PeriphBase + 4, 4)

SpecMmio == Init /\ [][NextMmio]_vars

\* the installed mappings whose range contains the address
Holders(a) == {b \in DOMAIN peripherals : b <= a /\ a < MappingEnd(b)}

\* C35: a read or write of an address in the MMIO window goes to the one
\* installed mapping whose range contains the address, with offset = address
\* minus the base of that mapping, and the binary search finds the mapping
\* whenever there is one; when no mapping contains the address the access
\* fails with an access error and no peripheral is touched; an address in no
\* region fails with an access error.
C35_MmioDispatch ==
    [][(call'[1] \in {"read", "write"}) =>
          LET a == call'[2]
              size == call'[3]
              h == Holders(a)
              in_window == PeriphBase <= a /\ a < PeriphBase + PeriphSize
          IN /\ Cardinality(h) <= 1
             /\ \A b \in h :
                   /\ find_peripheral(periph_bases, peripherals, a) = b
                   /\ exc' = "None"
                   /\ call'[1] = "read" =>
                         /\ Read(a, size).value = peripherals[b].word[a - b]
                         /\ peripherals' = peripherals
                   /\ call'[1] = "write" =>
                         peripherals' = [peripherals EXCEPT ![b].word[a - b] = call'[4]]
             /\ (in_window /\ h = {}) =>
                   /\ find_peripheral(periph_bases, peripherals, a) = -1
                   /\ exc' = "MemoryAccessError"
                   /\ peripherals' = peripherals
             /\ ~in_window =>
                   /\ exc' = "MemoryAccessError"
                   /\ UNCHANGED memVars]_vars

\* three mappings are installed; the middle one, two bytes long, has been
\* written at its second byte only and has just been read there
C35_Witness ==
    /\ Len(periph_bases) = 3
    /\ periph_bases[2] = PeriphBase + 1
    /\ peripherals[PeriphBase + 1].size = 2
    /\ peripherals[PeriphBase + 1].word = [o \in {0, 1} |-> IF o = 1 THEN ValA ELSE {}]
    /\ call = <<"read", PeriphBase + 2, 1>>
    /\ exc = "None"
    /\ Read(PeriphBase + 2, 1).value = ValA

(***************************************************************************)
(* SpecAlias: accesses of every size to the bit-band alias windows         *)
(***************************************************************************)

\* alias words of the first RAM word and of the first block past RAM; the
\* first two alias words of the peripheral window
AliasWords ==
    {AliasAddr(w, i) : w \in {0, SramWords}, i \in {0, 3}}
    \cup {BitbandPeriphBase, BitbandPeriphBase + 4}

\* the values written through the alias: 0, 1, an even value, and a value
\* with bit 0 and higher bits set
AliasValues == {{}, {0}, {1}, ValA}

\* accesses that are not words: sizes 1, 2, 3 and 8 at an alias word, and
\* sizes 1 and 2 one and two bytes into it
AliasNarrow ==
    {<<AliasAddr(0, 3), size>> : size \in {1, 2, 3, 8}}
    \cup {<<AliasAddr(0, 3) + 1, 1>>, <<AliasAddr(0, 3) + 1, 2>>, <<AliasAddr(0, 3) + 2, 2>>,
          <<BitbandPeriphBase, 2>>}

NextAlias ==
    \/ RegisterPeripheral(PeriphBase, 4)
    \/ Write(SramBase, 4, ValA)
    \/ \E a \in AliasWords, v \in AliasValues : Write(a, 4, v)
    \/ \E a \in AliasWords : ReadAt(a, 4)
    \/ \E n \in AliasNarrow : Write(n[1], n[2], {0})
    \/ \E n \in AliasNarrow : ReadAt(n[1], n[2])

SpecAlias == Init /\ [][NextAlias]_vars

\* the step is a read or write of an address in a bit-band alias window
IsAliasAccess == call'[1] \in {"read", "write"} /\ bitband_of(call'[2]) # 0

\* what the step leaves of the address space is what write(address, 4, v)
\* makes of the state before it
WritesAs(v) ==
    \E r \in {AddressSpace_write(flash_data, sram_data, periph_bases, peripherals,
                                 call'[2], 4, v)} :
       /\ exc' = r.exc
       /\ flash_data' = r.flash
       /\ sram_data' = r.sram
       /\ peripherals' = r.periphs

\* a word access to the alias: the read returns 0 or 1, the write of v does
\* what the write of v & 1 does
AliasWordAccess ==
    /\ (call'[1] = "read" /\ exc' = "None") =>
           Read(call'[2], 4).value \in {{}, {0}}
    /\ call'[1] = "write" => WritesAs(call'[4] \cap {0})

\* C36 as stated: an access to a bit-band alias address with a size other than
\* 4 fails with an access error and changes nothing; a 4-byte alias read
\* returns only 0 or 1; a 4-byte alias write of any value v has exactly the
\* effect of writing v & 1.
C36_AliasAccess_AsStated ==
    [][IsAliasAccess =>
          IF call'[3] # 4
          THEN exc' = "MemoryAccessError" /\ UNCHANGED memVars
          ELSE AliasWordAccess]_vars

\* C36, amended: an access to a bit-band alias address with a size other than
\* 4 fails and changes nothing, with an alignment error when the size is 2
\* and the address is odd and with an access error otherwise; a 4-byte alias
\* read that succeeds returns only 0 or 1; a 4-byte alias write of any value
\* v has exactly the effect of writing v & 1.
C36_AliasAccess ==
    [][IsAliasAccess =>
          IF call'[3] # 4
          THEN /\ exc' = IF call'[3] = 2 /\ call'[2] % 2 # 0
                         THEN "MemoryAlignmentError" ELSE "MemoryAccessError"
               /\ UNCHANGED memVars
          ELSE AliasWordAccess]_vars

\* bit 3 of the first RAM word has been set through the alias by a write of
\* a value with bit 0 and higher bits set, and the alias reads 1
C36_Witness ==
    /\ call = <<"write", AliasAddr(0, 3), 4, ValA>>
    /\ exc = "None"
    /\ 3 \in RamWord(sram_data, SramBase)
    /\ Read(AliasAddr(0, 3), 4) = [exc |-> "None", value |-> {0}]

(***************************************************************************)
(* SpecTranslate: BitBandRegion.translate on addresses in and around the   *)
(* two alias windows (core/address_space.py)                               *)
(***************************************************************************)

\* region.translate(alias_address) on bit-band region k
Translate(k, alias_address) ==
    /\ call' = <<"translate", k, alias_address>>
    /\ exc' = translate(bitband_regions[k], alias_address).exc
    /\ UNCHANGED <<envVars, memVars, gpioVars, boardVars, dbgVars>>

\* every address of the alias window of region k, two below and two above
TranslateAddrs(k) ==
    (bitband_regions[k].base - 2)..(bitband_regions[k].base + bitband_regions[k].size + 1)

NextTranslate ==
    \E k \in DOMAIN bitband_regions :
        \E a \in TranslateAddrs(k) : Translate(k, a)

SpecTranslate == Init /\ [][NextTranslate]_vars

TargetWords(bb) ==
    {t \in bb.target_base..(bb.target_base + bb.target_size - 1) : t % 4 = 0}

\* C38: through a bit-band alias window every bit of the underlying region is
\* exposed: for each 32-bit word address t in the target range and each bit
\* index i in 0..31 there is an alias address that translates to (t, i), so
\* each of the 32 bits of each target word can be read and written through
\* the alias (the read through the RAM window returns that bit of the word).
C38_EveryBitExposed ==
    \A k \in DOMAIN bitband_regions :
       \A t \in TargetWords(bitband_regions[k]), i \in 0..31 :
          \E a \in TranslateAddrs(k) :
             /\ translate(bitband_regions[k], a) =
                   [exc |-> "None", target |-> t, bit |-> i]
             /\ k = 1 =>
                   Read(a, 4) = [exc |-> "None",
                                 value |-> IF i \in RamWord(sram_data, t)
                                           THEN {0} ELSE {}]

\* what does hold: bits 0 to 7 of each target word the window reaches have
\* an alias word, and no alias address stands for a higher bit
LowByteExposed ==
    \A k \in DOMAIN bitband_regions :
       /\ \A a \in TranslateAddrs(k) : translate(bitband_regions[k], a).bit \in 0..7
       /\ \A t \in TargetWords(bitband_regions[k]), i \in 0..7 :
             (t - bitband_regions[k].target_base) \div 4 < BitbandBlocks =>
                \E a \in TranslateAddrs(k) :
                   translate(bitband_regions[k], a) =
                      [exc |-> "None", target |-> t, bit |-> i]

(***************************************************************************)
(* The DATA offset itself (tm4c/gpio.py read_masked, TM4C123GPIO.write)    *)
(***************************************************************************)

\* the access sizes the register file accepts
DirectSizes == {1, 2, 4}

\* C39: an access at the TM4C DATA offset itself is direct on the whole
\* register: a read of any accepted size returns the whole stored DATA value,
\* and a write of an accepted size succeeds and leaves DATA equal to the
\* written value restricted to the port mask, whatever DATA held before.
C39_DataBaseIsDirect ==
    [][/\ \A s \in DirectSizes :
             TM4C123GPIO_read(tm4c_data', DataOffset, s)
                 = [exc |-> "None", value |-> tm4c_data']
       /\ (/\ call'[1] = "tm4c_write"
           /\ call'[2] = DataOffset
           /\ call'[3] \in DirectSizes)
          => /\ exc' = "None"
             /\ tm4c_data' = call'[4] \cap DataMask]_vars

\* a write of 0x1C0 at the DATA offset left pin 6 alone set, and DATA reads so
C39_Witness ==
    /\ call = <<"tm4c_write", DataOffset, 4, {6, 7, 8}>>
    /\ exc = "None"
    /\ tm4c_data = {6}
    /\ TM4C123GPIO_read(tm4c_data, DataOffset, 4).value = {6}

(***************************************************************************)
(* The width of the STM32 ODR (stm32/gpio.py)                              *)
(***************************************************************************)

\* a write to BSRR whose size is not 4
NarrowBsrrWrite ==
    /\ call'[1] = "stm32_write"
    /\ call'[2] = REG_BSRR
    /\ call'[3] # 4

\* C40: through every sequence of register writes to the STM32 port (ODR
\* writes of size 1, 2 or 4, BSRR writes) and resets, ODR holds no bit above
\* bit 15, that is a value of at most 0xFFFF; and a BSRR write whose size is
\* not 4 is rejected with an error and leaves ODR as it was.
C40_OdrSixteenBits ==
    /\ Mask16(odr) = odr
    /\ [][/\ Mask16(odr') = odr'
          /\ NarrowBsrrWrite => (exc' = "ValueError" /\ odr' = odr)]_vars

\* ODR holds 0x8081 from a 32-bit ODR write of 0x18081, and a 16-bit BSRR
\* write that would set pin 0 has just been rejected
C40_Witness ==
    /\ call = <<"stm32_write", REG_BSRR, 2, {0}>>
    /\ exc = "ValueError"
    /\ odr = {0, 7, 15}

====
